---- MODULE Spec2Model ----
(***************************************************************************)
(* Model of the synapse-relay node: the durable offline buffer and its     *)
(* retry loop (src/src/relay/buffer-manager.ts over the signal_buffer      *)
(* table of src/src/database/schema.ts) and the delivery engine            *)
(* (src/dist/relay/engine.js).                                             *)
(*                                                                         *)
(* Node.js runs one macrotask at a time: code between two awaits of a      *)
(* socket.send completion is atomic, and the completions of different      *)
(* calls interleave freely.  Each action below is one such atomic piece.   *)
(***************************************************************************)
EXTENDS Integers, Sequences, FiniteSets, TLC

\* ---------------------------------------------------------------- bounds
\* rows ever inserted into signal_buffer
MaxRows == 2
\* clock bound, in seconds
MaxSeconds == 2
\* longest bufferIds list passed to retryBufferedSignals
MaxIds == 2
\* retryBufferedSignals is not started once a row has this retry_count
MaxRetryCount == 4
\* buffer-manager calls (processBuffer, retryBufferedSignals, flushBuffer) made
MaxCalls == 2

\* relaySignal calls made
MaxRelays == 1
\* longest target_servers list of a relay request
MaxTargets == 2
\* rows ever inserted into relay_rules
MaxRules == 1

\* rows ever inserted into relay_rules through configure_relay and /api/rules
MaxToolRules == 2
\* matchRules is not called once a rule has this match_count
MaxMatchCount == 2
MaxClients == 1
MaxStatsRows == 3

\* ------------------------------------------------------ program constants
RETRY_INTERVALS == <<1000, 5000, 15000>>
DEFAULT_TTL_HOURS == 24
MAX_RETRIES == 3

\* SQL NULL / JS null for the nullable integer columns
NULL == 0 - 1

\* type SignalPriority
SignalPriority == {"low", "normal", "high", "urgent"}
\* type BufferStatus
BufferStatus == {"pending", "delivered", "expired", "failed"}

\* Server names used as targets; only those of peer_ports have a port.
Servers == {"A", "X"}
peer_ports == {"A"}

\* Targets named in relay requests; config.peer_ports maps A and B only.
RelayServers == {"A", "B", "X"}
engine_peer_ports == {"A", "B"}

\* payloads are JSON objects: functions from keys to (JSON-encoded) values
Payloads == {[k \in {"old", "keep"} |-> IF k = "old" THEN "v" ELSE "true"],
             [k \in {"x"} |-> "1"]}

\* transforms are the entries of the JSON object in insertion order:
\* v = null -> "delete", v = {rename: f} -> "rename" f, otherwise "set" v
Transforms == {<<>>,
               <<[key |-> "ts", kind |-> "set", arg |-> "123"],
                 [key |-> "old", kind |-> "delete", arg |-> ""],
                 [key |-> "new", kind |-> "rename", arg |-> "old"]>>,
               <<[key |-> "new", kind |-> "rename", arg |-> "old"],
                 [key |-> "x", kind |-> "set", arg |-> "2"]>>}

\* Inputs of bufferSignal's ttlHours and clock steps (ms)
TtlHours == {0, DEFAULT_TTL_HOURS}
Deltas == {1000}
\* priorities of the rows bufferSignal is called with
BufferedPriorities == {"normal"}

VARIABLES
    now,              \* Date.now(), ms
    started,          \* SynapseRelayServer.start() has run
    deliveryCallback, \* buffer-manager's deliveryCallback is not null
    signal_buffer,    \* table signal_buffer: id -> row
    nextId,           \* ids handed out so far (uuidv4 never repeats)
    procs,            \* the buffer-manager calls made so far, by call number
    engine,           \* initRelayEngine has set config and udpSocket
    relay_rules,      \* table relay_rules: id -> row
    rule_seq,         \* sqlite_sequence of relay_rules (AUTOINCREMENT)
    signal_relays,    \* table signal_relays, in insertion order
    relay,            \* the relaySignal call in progress or last returned
    config,           \* this.config: peers and signals of config/interlock.json
    tumbler,          \* tumbler.js's config: allowedPeers, allowedSignals
    clients,          \* WebSocketService.clients: topics and events sent, by client
    relay_stats,      \* table relay_stats, in insertion order
    stop,             \* where stop() is: "idle", "closing" or "closed"
    lastCall          \* the last tool call, HTTP request or datagram and its outcome

vars == <<now, started, deliveryCallback, signal_buffer, nextId, procs,
          engine, relay_rules, rule_seq, signal_relays, relay, config, tumbler,
          clients, relay_stats, stop, lastCall>>

serviceVars == <<clients, relay_stats>>

interlockVars == <<config, tumbler>>

bufferVars == <<signal_buffer, nextId, procs>>
relayVars == <<relay_rules, rule_seq, signal_relays, relay>>

Calls == 1..MaxCalls
Ids == 1..MaxRows

Range(s) == {s[k] : k \in 1..Len(s)}

RECURSIVE Count(_, _)
Count(s, id) ==
    IF s = <<>> THEN 0
    ELSE (IF Head(s).id = id THEN 1 ELSE 0) + Count(Tail(s), id)

\* ------------------------------------------------------------- the store

insertBufferedSignal(buf, row) ==
    [id \in DOMAIN buf \cup {row.id} |-> IF id = row.id THEN row ELSE buf[id]]

updateBufferedSignalStatus(buf, id, status) ==
    [k \in DOMAIN buf |-> IF k = id THEN [buf[k] EXCEPT !.status = status] ELSE buf[k]]

incrementBufferRetryCount(buf, id, t) ==
    [k \in DOMAIN buf |->
        IF k = id
        THEN [buf[k] EXCEPT !.retry_count = @ + 1, !.last_retry_at = t]
        ELSE buf[k]]

deleteBufferedSignal(buf, id) ==
    [k \in DOMAIN buf \ {id} |-> buf[k]]

deleteBufferedSignalsByTarget(buf, target) ==
    [k \in {r \in DOMAIN buf : buf[r].target_server # target} |-> buf[k]]

\* a sweep that marks nothing
expireOldBufferedSignals_Never(buf, t) == buf

expireOldBufferedSignals(buf, t) ==
    [k \in DOMAIN buf |->
        IF buf[k].status = "pending" /\ buf[k].expires_at # NULL /\ buf[k].expires_at < t
        THEN [buf[k] EXCEPT !.status = "expired"]
        ELSE buf[k]]

\* priority is a TEXT column: ORDER BY priority compares the strings.
TextRank(p) ==
    CASE p = "high" -> 1 [] p = "low" -> 2 [] p = "normal" -> 3 [] p = "urgent" -> 4

\* ORDER BY priority DESC, buffered_at ASC (ties in insertion order)
RetryOrder(a, b) ==
    \/ TextRank(a.priority) > TextRank(b.priority)
    \/ /\ a.priority = b.priority
       /\ \/ a.buffered_at < b.buffered_at
          \/ a.buffered_at = b.buffered_at /\ a.id < b.id

\* ORDER BY buffered_at ASC (ties in insertion order)
PendingOrder(a, b) ==
    \/ a.buffered_at < b.buffered_at
    \/ a.buffered_at = b.buffered_at /\ a.id < b.id

RECURSIVE SortRetry(_)
SortRetry(S) ==
    IF S = {} THEN <<>>
    ELSE LET m == CHOOSE x \in S : \A y \in S \ {x} : RetryOrder(x, y)
         IN  <<m>> \o SortRetry(S \ {m})

RECURSIVE SortPending(_)
SortPending(S) ==
    IF S = {} THEN <<>>
    ELSE LET m == CHOOSE x \in S : \A y \in S \ {x} : PendingOrder(x, y)
         IN  <<m>> \o SortPending(S \ {m})

\* the pending query without its status filter
getPendingBufferedSignals_AnyStatus(buf, targetServer) ==
    SortPending({buf[k] : k \in {r \in DOMAIN buf :
        targetServer # "" => buf[r].target_server = targetServer}})

getPendingBufferedSignals(buf, targetServer) ==
    SortPending({buf[k] : k \in {r \in DOMAIN buf :
        /\ buf[r].status = "pending"
        /\ (targetServer # "" => buf[r].target_server = targetServer)}})

getRetryableBufferedSignals(buf, retryAfter, t) ==
    SortRetry({buf[k] : k \in {r \in DOMAIN buf :
        /\ buf[r].status = "pending"
        /\ (buf[r].last_retry_at = NULL \/ buf[r].last_retry_at < retryAfter)
        /\ buf[r].retry_count < buf[r].max_retries
        /\ (buf[r].expires_at = NULL \/ buf[r].expires_at > t)}})

\* ------------------------------------------------------ buffer manager

\* what each call does with the callback's answer
ProcessBufferOnResult(buf, buffer, success, t) ==
    IF success
    THEN updateBufferedSignalStatus(buf, buffer.id, "delivered")
    ELSE LET b1 == incrementBufferRetryCount(buf, buffer.id, t)
         IN  IF buffer.retry_count + 1 >= buffer.max_retries
             THEN updateBufferedSignalStatus(b1, buffer.id, "failed")
             ELSE b1

RetryOnResult(buf, buffer, success, t) ==
    IF success
    THEN updateBufferedSignalStatus(buf, buffer.id, "delivered")
    ELSE incrementBufferRetryCount(buf, buffer.id, t)

\* a flush that counts a failed send as one more retry
FlushOnResult_Retry(buf, buffer, success, t) ==
    IF success
    THEN updateBufferedSignalStatus(buf, buffer.id, "delivered")
    ELSE incrementBufferRetryCount(buf, buffer.id, t)

\* a flush that marks the row delivered whatever the callback answered
FlushOnResult_AlwaysDelivered(buf, buffer, success, t) ==
    updateBufferedSignalStatus(buf, buffer.id, "delivered")

FlushOnResult(buf, buffer, success, t) ==
    IF success
    THEN updateBufferedSignalStatus(buf, buffer.id, "delivered")
    ELSE updateBufferedSignalStatus(buf, buffer.id, "failed")

OnResult(op, buf, buffer, success, t) ==
    CASE op = "processBuffer" -> ProcessBufferOnResult(buf, buffer, success, t)
      [] op = "retryBufferedSignals" -> RetryOnResult(buf, buffer, success, t)
      [] op = "flushBuffer" -> FlushOnResult(buf, buffer, success, t)

\* a backoff test that waits the first interval whatever the retry count
BackoffElapsed_FirstInterval(buffer, t) ==
    LET lastRetry == IF buffer.last_retry_at = NULL \/ buffer.last_retry_at = 0
                     THEN buffer.buffered_at ELSE buffer.last_retry_at
    IN  ~(t - lastRetry < RETRY_INTERVALS[1])

\* processBuffer's backoff test on the selected copy of the row
BackoffElapsed(buffer, t) ==
    LET k == IF buffer.retry_count < Len(RETRY_INTERVALS) - 1
             THEN buffer.retry_count ELSE Len(RETRY_INTERVALS) - 1
        retryInterval == RETRY_INTERVALS[k + 1]
        lastRetry == IF buffer.last_retry_at = NULL \/ buffer.last_retry_at = 0
                     THEN buffer.buffered_at ELSE buffer.last_retry_at
    IN  ~(t - lastRetry < retryInterval)

\* retryBufferedSignals' test on the id it is about to attempt
RetryFound(buf, id) ==
    id \in DOMAIN buf /\ buf[id].status = "pending"

\* does the loop body go on to the callback for entry j of the list
Attempted(op, list, j, buf, t) ==
    CASE op = "processBuffer" -> BackoffElapsed(list[j], t)
      [] op = "retryBufferedSignals" -> RetryFound(buf, list[j])
      [] op = "flushBuffer" -> TRUE

\* the row handed to the callback
BufferAt(op, list, j, buf) ==
    IF op = "retryBufferedSignals" THEN buf[list[j]] ELSE list[j]

\* The for-loop of a call from entry j on, up to its next await of a
\* socket.send completion (i <= Len(list)) or to its end (i = Len(list)+1).
\* The installed callback answers false without sending when the target has
\* no port, so such an attempt is finished inside the same piece.
RECURSIVE RunLoop(_, _, _, _, _, _, _)
RunLoop(op, list, j, buf, t, calls, n) ==
    IF j > Len(list) THEN [buf |-> buf, i |-> j, calls |-> calls, attempted |-> n]
    ELSE IF ~Attempted(op, list, j, buf, t)
    THEN RunLoop(op, list, j + 1, buf, t, calls, n)
    ELSE LET buffer == BufferAt(op, list, j, buf) IN
         IF ~deliveryCallback
         THEN RunLoop(op, list, j + 1, buf, t, calls, n + 1)
         ELSE IF buffer.target_server \notin peer_ports
         THEN RunLoop(op, list, j + 1, OnResult(op, buf, buffer, FALSE, t), t,
                      Append(calls, buffer), n + 1)
         ELSE [buf |-> buf, i |-> j, calls |-> Append(calls, buffer), attempted |-> n + 1]

\* ---------------------------------------------------------- rule engine

\* source_server values relaySignal is called with
Sources == {"synapse-relay", "http-api"}

\* new RegExp(p): "(" does not compile; "^http" tests the start of the name
RegexValid(p) == p # "("
RegexTest(p, s) == IF p = "^http" THEN s = "http-api" ELSE TRUE

\* ORDER BY priority ASC (ties in insertion order)
RuleOrder_Ascending(a, b) ==
    \/ a.priority < b.priority
    \/ a.priority = b.priority /\ a.id < b.id

\* ORDER BY priority DESC (ties in insertion order)
RuleOrder(a, b) ==
    \/ a.priority > b.priority
    \/ a.priority = b.priority /\ a.id < b.id

RECURSIVE SortRules(_)
SortRules(S) ==
    IF S = {} THEN <<>>
    ELSE LET m == CHOOSE x \in S : \A y \in S \ {x} : RuleOrder(x, y)
         IN  <<m>> \o SortRules(S \ {m})

getEnabledRelayRules(rules) ==
    SortRules({rules[k] : k \in {r \in DOMAIN rules : rules[r].enabled = 1}})

insertRelayRule(rules, rule) ==
    [id \in DOMAIN rules \cup {rule.id} |-> IF id = rule.id THEN rule ELSE rules[id]]

\* an increment that is not restricted to the given ids
incrementRuleMatchCount_EveryRule(rules, ids) ==
    [k \in DOMAIN rules |-> [rules[k] EXCEPT !.match_count = @ + 1]]

incrementRuleMatchCount(rules, ids) ==
    [k \in DOMAIN rules |->
        IF k \in ids THEN [rules[k] EXCEPT !.match_count = @ + 1] ELSE rules[k]]

\* a filter callback that drops a rule whose source_filter does not compile
RuleMatches_InvalidRejects(rule, signalType, sourceServer) ==
    /\ rule.signal_pattern = signalType
    /\ rule.source_filter # ""
           => (RegexValid(rule.source_filter)
                  /\ RegexTest(rule.source_filter, sourceServer))

\* the filter callback of matchRules; "" stands for a null or empty filter
RuleMatches(rule, signalType, sourceServer) ==
    /\ rule.signal_pattern = signalType
    /\ (rule.source_filter # "" /\ RegexValid(rule.source_filter))
           => RegexTest(rule.source_filter, sourceServer)

\* the rules returned and the table after the match counts were bumped
matchRules(rules, signalType, sourceServer) ==
    LET matched == SelectSeq(getEnabledRelayRules(rules),
                             LAMBDA r : RuleMatches(r, signalType, sourceServer))
    IN  [rules |-> matched,
         table |-> incrementRuleMatchCount(rules, {matched[j].id : j \in 1..Len(matched)})]

Put(m, k, v) == [x \in DOMAIN m \cup {k} |-> IF x = k THEN v ELSE m[x]]
Del(m, k) == [x \in DOMAIN m \ {k} |-> m[x]]

\* the loop body with a delete that leaves the field in place
TransformEntry_KeepsDeleted(result, e) ==
    CASE e.kind = "delete" -> result
      [] e.kind = "rename" ->
            IF e.arg \in DOMAIN result
            THEN Del(Put(result, e.key, result[e.arg]), e.arg)
            ELSE result
      [] e.kind = "set" -> Put(result, e.key, e.arg)

TransformEntry(result, e) ==
    CASE e.kind = "delete" -> Del(result, e.key)
      [] e.kind = "rename" ->
            IF e.arg \in DOMAIN result
            THEN Del(Put(result, e.key, result[e.arg]), e.arg)
            ELSE result
      [] e.kind = "set" -> Put(result, e.key, e.arg)

RECURSIVE applyTransform(_, _)
applyTransform(payload, transform) ==
    IF transform = <<>> THEN payload
    ELSE applyTransform(TransformEntry(payload, Head(transform)), Tail(transform))

\* ------------------------------------------------------ delivery engine

\* relaySignal's loop over the matched rules
RECURSIVE TransformAll(_, _)
TransformAll(payload, rules) ==
    IF rules = <<>> THEN payload
    ELSE TransformAll(IF Head(rules).transform # <<>>
                      THEN applyTransform(payload, Head(rules).transform)
                      ELSE payload,
                      Tail(rules))

\* sendToTarget up to its socket.send: "refused" resolves false at once and
\* hands no datagram to the socket, "inflight" waits for the send callback
sendToTarget(target) ==
    IF ~engine THEN "refused"
    ELSE IF target \notin engine_peer_ports THEN "refused"
    ELSE "inflight"

\* a wait that ends with the first send to settle
AllSettled_First(sends) == \E i \in 1..Len(sends) : sends[i] # "inflight"

\* await Promise.allSettled(...)
AllSettled(sends) == \A i \in 1..Len(sends) : sends[i] # "inflight"

RECURSIVE Pick(_, _, _)
Pick(targets, keep, i) ==
    IF i > Len(targets) THEN <<>>
    ELSE (IF keep[i] THEN <<targets[i]>> ELSE <<>>) \o Pick(targets, keep, i + 1)

\* results.forEach: fulfilled with true -> reached, anything else -> failed
TargetsReached(targets, sends) ==
    Pick(targets, [i \in 1..Len(targets) |-> sends[i] = "ok"], 1)

TargetsFailed(targets, sends) ==
    Pick(targets, [i \in 1..Len(targets) |-> sends[i] # "ok"], 1)

\* buffering that leaves out the targets without a port
TargetsBuffered_KnownOnly(failed, buffer_if_offline) ==
    IF buffer_if_offline
    THEN SelectSeq(failed, LAMBDA x : x \in engine_peer_ports)
    ELSE <<>>

TargetsBuffered(failed, buffer_if_offline) ==
    IF buffer_if_offline THEN failed ELSE <<>>

NoRelay == [pc |-> "idle", relay_id |-> 0]

\* ------------------------------------------------- InterLock wire codec

\* JS NaN: every comparison with it is false, arithmetic on it gives it
NaN == 0 - 999999999

Times(a, b) == IF a = NaN \/ b = NaN THEN NaN ELSE a * b
Minus(a, b) == IF a = NaN \/ b = NaN THEN NaN ELSE a - b
Greater(a, b) == a # NaN /\ b # NaN /\ a > b
Less(a, b) == a # NaN /\ b # NaN /\ a < b
LessEq(a, b) == a # NaN /\ b # NaN /\ a <= b
\* Math.floor(x / 1000)
FloorSeconds(x) == IF x = NaN THEN NaN ELSE x \div 1000

\* const SignalTypes
SignalTypes ==
    [n \in {"DOCK_REQUEST", "DOCK_APPROVED", "DOCK_REJECTED", "HEARTBEAT", "UNDOCK",
            "RELAY_REQUEST", "RELAY_RESPONSE", "RELAY_FAILED", "BUFFER_FLUSH",
            "BUFFER_RETRY", "PING", "PONG", "ERROR", "SHUTDOWN"} |->
        CASE n = "DOCK_REQUEST" -> 1 [] n = "DOCK_APPROVED" -> 2
          [] n = "DOCK_REJECTED" -> 3 [] n = "HEARTBEAT" -> 4 [] n = "UNDOCK" -> 5
          [] n = "RELAY_REQUEST" -> 80 [] n = "RELAY_RESPONSE" -> 81
          [] n = "RELAY_FAILED" -> 82 [] n = "BUFFER_FLUSH" -> 83
          [] n = "BUFFER_RETRY" -> 84 [] n = "PING" -> 241 [] n = "PONG" -> 242
          [] n = "ERROR" -> 240 [] n = "SHUTDOWN" -> 255]

\* typeStr.toUpperCase() on the type names that arrive
ToUpperCase(typeStr) ==
    CASE typeStr = "heartbeat" -> "HEARTBEAT"
      [] typeStr = "ping" -> "PING"
      [] OTHER -> typeStr

\* the keys of mapTypeStringToNumber's table
MappedTypeNames ==
    {"HEARTBEAT", "DOCK_REQUEST", "DOCK_APPROVED", "DOCK_REJECTED", "UNDOCK",
     "RELAY_REQUEST", "RELAY_RESPONSE", "RELAY_FAILED", "PING", "PONG", "ERROR",
     "SHUTDOWN"}

mapTypeStringToNumber(typeStr) ==
    IF ToUpperCase(typeStr) \in MappedTypeNames
    THEN SignalTypes[ToUpperCase(typeStr)]
    ELSE 0

\* no message: decodeMessage returned null
NoMessage == [signalType |-> 0 - 1, timestamp |-> 0, sender |-> ""]

\* decodeBinaryMessage: the header's signal type and timestamp (seconds)
\* (sender is the body's sender value; a falsy one is replaced, and the
\* bodies that arrive here carry no serverId or source key)
decodeBinaryMessage(d) ==
    IF d.signalType = 0 \/ d.signalType > 255
    THEN NoMessage
    ELSE [signalType |-> d.signalType, timestamp |-> d.timestamp,
          sender |-> IF d.sender = "" THEN "unknown" ELSE d.sender]

\* decodeTextMessage.  JSON formats: t is a number or a type name, ts is in
\* ms and Date.now() stands in for a falsy ts; a ts that is no number gives
\* NaN.  Colon format: at least four parts, the first is the type name, the
\* last is parsed as the timestamp in ms (NaN when it has no leading digits).
decodeTextMessage(d, time) ==
    IF d.fmt = "jsonNumber"
    THEN [signalType |-> d.signalType,
          timestamp |-> FloorSeconds(IF d.last = 0 THEN time ELSE d.last),
          sender |-> d.sender]
    ELSE IF d.fmt = "json"
    THEN [signalType |-> mapTypeStringToNumber(d.type),
          timestamp |-> FloorSeconds(IF d.last = 0 THEN time ELSE d.last),
          sender |-> d.sender]
    ELSE IF d.parts >= 4
    THEN [signalType |-> mapTypeStringToNumber(d.type),
          timestamp |-> FloorSeconds(d.last),
          sender |-> d.sender]
    ELSE NoMessage

\* binary first (buffers of 12 bytes or more), then text.  The first two
\* bytes of a text datagram read as a signal type above 0xFF, so text always
\* falls through; a binary datagram refused for its signal type is read as
\* text too, its first colon-separated part standing for the type name.
decodeMessage(d, time) ==
    IF d.fmt = "binary" /\ decodeBinaryMessage(d) # NoMessage
    THEN decodeBinaryMessage(d)
    ELSE decodeTextMessage(d, time)

\* { sender, ...payload }: the keys of payload are written over sender
Spread(sender, payload) ==
    [k \in {"sender"} \cup DOMAIN payload |->
        IF k \in DOMAIN payload THEN payload[k] ELSE sender]

\* encodeMessage: 12-byte header (uint16 type, version, uint32 length, uint32
\* seconds, which fit until 2106) and the JSON text of { sender, ...payload }
encodeMessage(signalType, sender, payload, time) ==
    LET fullPayload == Spread(sender, payload)
    IN  [fmt |-> "binary", signalType |-> signalType % 65536, type |-> "?",
         timestamp |-> FloorSeconds(time),
         parts |-> 1 + Cardinality(DOMAIN fullPayload), last |-> NaN,
         sender |-> fullPayload["sender"], body |-> fullPayload]

\* the payload object decodeBinaryMessage returns for an encoded datagram
binaryPayload(d) ==
    IF d.body["sender"] = ""
    THEN Put(d.body, "sender", decodeBinaryMessage(d).sender)
    ELSE d.body

\* encodeRelayMessage: the JSON text of {type, sender, payload, priority,
\* timestamp}, no header.  Read as a header its first two bytes '{"' give
\* 0x7B22; split at ':' its first part is '{"type"', its second the type
\* number followed by ',"sender"', its last the timestamp followed by '}'.
encodeRelayMessage(signalType, sender, payload, priority, time) ==
    [fmt |-> "relay", signalType |-> 31522, type |-> "{\"type\"", timestamp |-> 0,
     parts |-> 6 + Cardinality(DOMAIN payload), last |-> time,
     sender |-> ToString(signalType) \o ",\"sender\""]

\* the datagram of the installed delivery callback: the JSON text of
\* {type, sender, payload, timestamp}
deliveryMessage(buffer, time) ==
    [fmt |-> "relay", signalType |-> 31522, type |-> "{\"type\"", timestamp |-> 0,
     parts |-> 5 + Cardinality(DOMAIN buffer.payload), last |-> time,
     sender |-> ToString(buffer.signal_type) \o ",\"sender\""]

\* payloads encodeMessage is called with; "" is a falsy string
CodecPayloads ==
    {<<>>,
     [k \in {"x"} |-> "1"],
     [k \in {"sender"} |-> "B"],
     [k \in {"sender"} |-> ""],
     [k \in {"x", "sender"} |-> IF k = "x" THEN "1" ELSE "synapse-relay"]}

\* entries of signals.incoming / signals.outgoing: "0x.." strings, numbers,
\* anything else
SignalEntry(e) ==
    CASE e.kind = "hex" -> e.v
      [] e.kind = "number" -> e.v
      [] OTHER -> 0

\* initTumbler without the filter on the converted numbers
initTumbler_NoFilter(peers, signals) ==
    [allowedPeers |-> peers,
     allowedSignals |-> [i \in 1..Len(signals) |-> SignalEntry(signals[i])]]

initTumbler(peers, signals) ==
    [allowedPeers |-> peers,
     allowedSignals |-> SelectSeq([i \in 1..Len(signals) |-> SignalEntry(signals[i])],
                                  LAMBDA n : n > 0)]

\* validateMessage: the peer whitelist test has an empty body
validateMessage(t, message, time) ==
    /\ ~(Len(t.allowedSignals) > 0 /\ message.signalType \notin Range(t.allowedSignals))
    /\ LET age == Minus(time, Times(message.timestamp, 1000))
       IN  ~(Greater(age, 5 * 60 * 1000) \/ Less(age, 0 - 60000))

\* handleMessage's switch
handleMessage(message) ==
    CASE message.signalType = SignalTypes["PING"] -> "handlePing"
      [] message.signalType = SignalTypes["HEARTBEAT"] -> "heartbeat"
      [] OTHER -> "unknown signal type"

\* loadInterLockConfig when config/interlock.json is missing
DefaultConfig == [peers |-> <<>>, signals |-> <<>>]

\* contents of config/interlock.json: peers, signals.incoming ++ signals.outgoing
Configs ==
    [peers : {<<>>, <<"A">>},
     signals : {<<>>,
                <<[kind |-> "hex", v |-> 4]>>,
                <<[kind |-> "hex", v |-> 241], [kind |-> "number", v |-> 83]>>,
                <<[kind |-> "other", v |-> 0], [kind |-> "hex", v |-> 4]>>,
                <<[kind |-> "other", v |-> 0]>>}]

\* datagrams that arrive on the socket: fmt is how the sender encoded it,
\* signalType/timestamp the binary header (or the JSON number t), type the
\* type name (the first colon-separated part), parts the number of
\* colon-separated parts and last the number the last part (or JSON ts)
\* parses to
TextTypes == {"PING", "heartbeat", "BUFFER_FLUSH", "BOGUS"}
TextTimestamps == {NaN, 0 - 300001, 0 - 300000, 0 - 298000, 0, 61999, 62000, 63000}
Datagrams ==
    [fmt : {"binary"}, signalType : {4, 83, 241}, type : {"?"},
     timestamp : {0, 60, 61, 62, 63}, parts : {1}, last : {NaN}, sender : {"A", "Z"}]
    \cup [fmt : {"binary"}, signalType : {0, 300}, type : {"?"},
          timestamp : {0}, parts : {1, 4}, last : {NaN, 0}, sender : {"A"}]
    \cup [fmt : {"colon"}, signalType : {0}, type : TextTypes,
          timestamp : {0}, parts : {4}, last : TextTimestamps, sender : {"A", "Z"}]
    \cup [fmt : {"json"}, signalType : {0}, type : {"PING", "BOGUS"},
          timestamp : {0}, parts : {1}, last : {NaN, 0, 63000}, sender : {"A"}]
    \cup [fmt : {"jsonNumber"}, signalType : {0, 4}, type : {"?"},
          timestamp : {0}, parts : {1}, last : {NaN, 0}, sender : {"A"}]

NoCall == [op |-> "none"]

\* ------------------------------------------- rule and buffer tool calls

\* UPDATE relay_rules SET ... WHERE id = ?: relay_to and enabled are the
\* columns the requests below set
updateRelayRule(rules, id, hasRelayTo, relayTo, enabled) ==
    [k \in DOMAIN rules |->
        IF k = id
        THEN [rules[k] EXCEPT
                 !.relay_to = IF hasRelayTo THEN relayTo ELSE @,
                 !.enabled = CASE enabled = "true" -> 1
                               [] enabled = "false" -> 0
                               [] OTHER -> @]
        ELSE rules[k]]

deleteRelayRule(rules, id) ==
    [k \in DOMAIN rules \ {id} |-> rules[k]]

\* addRule: the row it inserts; an empty sourceFilter is stored as null ("")
addRule(rules, id, signalPattern, relayTo, sourceFilter, enabled) ==
    insertRelayRule(rules,
        [id |-> id, signal_pattern |-> signalPattern, source_filter |-> sourceFilter,
         relay_to |-> relayTo, transform |-> <<>>, priority |-> 0,
         enabled |-> IF enabled = "false" THEN 0 ELSE 1, match_count |-> 0])

\* arguments of configure_relay, POST /api/rules and PUT /api/rules/:id;
\* NULL is a number left out, has_relay_to tells whether relay_to was given,
\* enabled is "absent", "true" or "false"
RuleInputs ==
    [action : {"add"}, rule_id : {NULL}, signal_pattern : {NULL, 80, 81},
     has_relay_to : {TRUE}, relay_to : {<<>>, <<"B">>},
     source_filter : {""}, enabled : {"absent", "false"}]
    \cup [action : {"add"}, rule_id : {NULL}, signal_pattern : {80},
          has_relay_to : {TRUE}, relay_to : {<<"B">>},
          source_filter : {"(", "^http"}, enabled : {"absent"}]
    \cup [action : {"add"}, rule_id : {NULL}, signal_pattern : {80},
          has_relay_to : {FALSE}, relay_to : {<<>>},
          source_filter : {""}, enabled : {"absent"}]
    \cup [action : {"update"}, rule_id : {NULL, 1, 2}, signal_pattern : {NULL},
          has_relay_to : BOOLEAN, relay_to : {<<>>},
          source_filter : {""}, enabled : {"absent", "true", "false"}]
    \cup [action : {"remove"}, rule_id : {NULL, 1, 2}, signal_pattern : {NULL},
          has_relay_to : {FALSE}, relay_to : {<<>>},
          source_filter : {""}, enabled : {"absent"}]

\* handleConfigureRelay throws when add has no relay_to
configureRelayThrows_AddWithoutTargets(input) ==
    CASE input.action = "add" -> input.signal_pattern = NULL \/ input.signal_pattern = 0
      [] input.action = "update" -> input.rule_id = NULL \/ input.rule_id = 0
      [] input.action = "remove" -> input.rule_id = NULL \/ input.rule_id = 0

\* handleConfigureRelay's throw conditions
configureRelayThrows(input) ==
    CASE input.action = "add" ->
             \/ input.signal_pattern = NULL \/ input.signal_pattern = 0
             \/ ~input.has_relay_to
             \/ Len(input.relay_to) = 0
      [] input.action = "update" -> input.rule_id = NULL \/ input.rule_id = 0
      [] input.action = "remove" -> input.rule_id = NULL \/ input.rule_id = 0

\* POST /api/rules answers 400: an empty array is truthy in JavaScript
postRuleRefused(input) ==
    \/ input.signal_pattern = NULL \/ input.signal_pattern = 0
    \/ ~input.has_relay_to

\* the table after a request that passed its checks
applyRuleRequest(rules, seq, input) ==
    CASE input.action = "add" ->
             addRule(rules, seq + 1, input.signal_pattern, input.relay_to,
                     input.source_filter, input.enabled)
      [] input.action = "update" ->
             updateRelayRule(rules, input.rule_id, input.has_relay_to,
                             input.relay_to, input.enabled)
      [] input.action = "remove" -> deleteRelayRule(rules, input.rule_id)

\* clearBufferedSignals: the table it leaves and the count it returns
RECURSIVE clearBufferedSignals(_, _, _, _)
clearBufferedSignals(buf, bufferIds, targetServer, cleared) ==
    IF Len(bufferIds) > 0
    THEN LET hit == Head(bufferIds) \in DOMAIN buf
             b1 == IF hit THEN deleteBufferedSignal(buf, Head(bufferIds)) ELSE buf
             n == IF hit THEN cleared + 1 ELSE cleared
         IN  IF Len(bufferIds) = 1 THEN [buf |-> b1, cleared |-> n]
             ELSE clearBufferedSignals(b1, Tail(bufferIds), targetServer, n)
    ELSE IF targetServer # ""
    THEN [buf |-> deleteBufferedSignalsByTarget(buf, targetServer),
          cleared |-> Cardinality({k \in DOMAIN buf : buf[k].target_server = targetServer})]
    ELSE [buf |-> buf, cleared |-> 0]

\* arguments of buffer_signals clear; <<>>, "" and NULL are filters left out
ClearInputs ==
    [buffer_ids : {<<>>, <<1>>, <<2, 1>>}, target_server : {"", "A"},
     signal_type : {NULL, 80, 81}, max_age_hours : {NULL, 1}]

\* ---------------------------------------------------- WebSocket service

\* A topic is written as its colon-separated segments: "relay:sent" is
\* <<"relay", "sent">>, "*" is <<"*">>, "relay:*" is <<"relay", "*">>.
\* sub.endsWith(':*') and topic.startsWith(sub.slice(0, -1)): the prefix ends
\* with its colon, so the topic needs one more segment at least.
matchesTopic(topic, subscribed) ==
    \/ <<"*">> \in subscribed
    \/ topic \in subscribed
    \/ \E sub \in subscribed :
           /\ Len(sub) >= 2
           /\ sub[Len(sub)] = "*"
           /\ Len(topic) >= Len(sub)
           /\ \A i \in 1..(Len(sub) - 1) : topic[i] = sub[i]

\* the clients broadcast's loop sends to (the clients of the map are open)
Receivers(cl, topic) == {c \in DOMAIN cl : matchesTopic(topic, cl[c].topics)}

broadcast(cl, type, data, topic) ==
    [c \in DOMAIN cl |->
        IF c \in Receivers(cl, topic)
        THEN [cl[c] EXCEPT !.received = @ \cup {[type |-> type, data |-> data]}]
        ELSE cl[c]]

\* sendTo: one event to one client
sendTo(cl, c, type, data) ==
    [cl EXCEPT ![c].received = @ \cup {[type |-> type, data |-> data]}]

\* the delivery callback's event for a sent row: emitRelaySent(buffer.id, ...)
emitRelaySent(cl, buffer) ==
    broadcast(cl, <<"relay", "sent">>, ToString(buffer.id), <<"relay", "sent">>)

\* selectedAt: the Date.now() of processBuffer's query (0 for the other calls)
Idle == [op |-> "idle", pc |-> "idle", list |-> <<>>, i |-> 0, calls |-> <<>>, attempted |-> 0,
         selectedAt |-> 0]

AfterLoop(op, list, r) ==
    [op |-> op, pc |-> IF r.i > Len(list) THEN "done" ELSE "await",
     list |-> list, i |-> r.i, calls |-> r.calls, attempted |-> r.attempted,
     selectedAt |-> 0]

\* the row whose callback a call is waiting for
InFlight(s) == procs[s].calls[Len(procs[s].calls)]

\* calls are numbered in the order they start
Free(s) == procs[s].pc = "idle" /\ \A q \in 1..(s - 1) : procs[q].pc # "idle"

Init ==
    /\ now = 0
    /\ started = FALSE
    /\ deliveryCallback = FALSE
    /\ signal_buffer = <<>>
    /\ nextId = 0
    /\ procs = [s \in Calls |-> Idle]
    /\ engine = FALSE
    /\ relay_rules = <<>>
    /\ rule_seq = 0
    /\ signal_relays = <<>>
    /\ relay = NoRelay
    /\ config = DefaultConfig
    /\ tumbler = [allowedPeers |-> <<>>, allowedSignals |-> <<>>]
    /\ clients = <<>>
    /\ relay_stats = <<>>
    /\ stop = "idle"
    /\ lastCall = NoCall

\* start(): startInterLock resolved, setDeliveryCallback ran
\* the state after construction when config/interlock.json is present
InitInterLock ==
    /\ now = 0
    /\ started = FALSE
    /\ deliveryCallback = FALSE
    /\ signal_buffer = <<>>
    /\ nextId = 0
    /\ procs = [s \in Calls |-> Idle]
    /\ engine = FALSE
    /\ relay_rules = <<>>
    /\ rule_seq = 0
    /\ signal_relays = <<>>
    /\ relay = NoRelay
    /\ config \in Configs
    /\ tumbler = [allowedPeers |-> <<>>, allowedSignals |-> <<>>]
    /\ clients = <<>>
    /\ relay_stats = <<>>
    /\ stop = "idle"
    /\ lastCall = NoCall

\* the state after construction over a store in which an earlier run left
\* two enabled rules for signal 80
InitRules ==
    /\ now = 0
    /\ started = FALSE
    /\ deliveryCallback = FALSE
    /\ signal_buffer = <<>>
    /\ nextId = 0
    /\ procs = [s \in Calls |-> Idle]
    /\ engine = FALSE
    /\ \E p1, p2 \in {0, 1} :
       \E t1 \in {<<[key |-> "x", kind |-> "set", arg |-> "2"],
                    [key |-> "ts", kind |-> "set", arg |-> "123"]>>,
                  <<[key |-> "new", kind |-> "rename", arg |-> "old"]>>},
          t2 \in {<<[key |-> "x", kind |-> "set", arg |-> "3"]>>,
                  <<[key |-> "old", kind |-> "delete", arg |-> ""],
                    [key |-> "ts", kind |-> "set", arg |-> "9"]>>} :
           relay_rules =
               [id \in {1, 2} |->
                   [id |-> id, signal_pattern |-> 80, source_filter |-> "",
                    relay_to |-> <<"B">>,
                    transform |-> IF id = 1 THEN t1 ELSE t2,
                    priority |-> IF id = 1 THEN p1 ELSE p2,
                    enabled |-> 1, match_count |-> 0]]
    /\ rule_seq = 2
    /\ signal_relays = <<>>
    /\ relay = NoRelay
    /\ config = DefaultConfig
    /\ tumbler = [allowedPeers |-> <<>>, allowedSignals |-> <<>>]
    /\ clients = <<>>
    /\ relay_stats = <<>>
    /\ stop = "idle"
    /\ lastCall = NoCall

StartInterLock ==
    /\ ~started
    /\ started' = TRUE
    /\ engine' = TRUE
    /\ deliveryCallback' = TRUE
    /\ tumbler' = initTumbler(config.peers, config.signals)
    /\ UNCHANGED <<stop, serviceVars, config, lastCall, now, signal_buffer, nextId, procs, relayVars>>

\* start(): startInterLock rejected; the catch logs and start() goes on
StartInterLockFailed ==
    /\ ~started
    /\ started' = TRUE
    /\ engine' = FALSE
    /\ deliveryCallback' = FALSE
    /\ tumbler' = initTumbler(config.peers, config.signals)
    /\ UNCHANGED <<stop, serviceVars, config, lastCall, now, signal_buffer, nextId, procs, relayVars>>

Tick ==
    \E d \in Deltas :
        /\ now + d <= MaxSeconds * 1000
        /\ now' = now + d
        /\ UNCHANGED <<stop, serviceVars, interlockVars, lastCall, started, deliveryCallback, engine,
                       bufferVars, relayVars>>

NewRow(id, signalType, sourceServer, targetServer, payload, priority, ttlHours, t) ==
    [id |-> id, signal_type |-> signalType, source_server |-> sourceServer,
     target_server |-> targetServer, payload |-> payload, priority |-> priority,
     buffered_at |-> t, retry_count |-> 0, last_retry_at |-> NULL,
     max_retries |-> MAX_RETRIES, expires_at |-> t + ttlHours * 60 * 60 * 1000,
     status |-> "pending"]

BufferSignal ==
    \E targetServer \in Servers, priority \in BufferedPriorities, ttlHours \in TtlHours :
        /\ started
        /\ nextId < MaxRows
        /\ nextId' = nextId + 1
        /\ signal_buffer' = insertBufferedSignal(signal_buffer,
               NewRow(nextId + 1, 80, "synapse-relay", targetServer, [k \in {"x"} |-> "1"],
                      priority, ttlHours, now))
        /\ UNCHANGED <<stop, serviceVars, interlockVars, lastCall, now, started, deliveryCallback, engine, procs, relayVars>>

\* bufferSignal as relaySignal calls it: with the priority of the request
BufferSignalPriority ==
    \E targetServer \in Servers, priority \in SignalPriority :
        /\ started
        /\ nextId < MaxRows
        /\ nextId' = nextId + 1
        /\ signal_buffer' = insertBufferedSignal(signal_buffer,
               NewRow(nextId + 1, 80, "synapse-relay", targetServer, [k \in {"x"} |-> "1"],
                      priority, DEFAULT_TTL_HOURS, now))
        /\ UNCHANGED <<stop, serviceVars, interlockVars, lastCall, now, started, deliveryCallback, engine, procs, relayVars>>

ProcessBufferStart ==
    \E s \in Calls :
        /\ started
        /\ stop = "idle"
        /\ Free(s)
        /\ LET b1 == expireOldBufferedSignals(signal_buffer, now)
               pending == getRetryableBufferedSignals(b1, now - RETRY_INTERVALS[1], now)
               r == RunLoop("processBuffer", pending, 1, b1, now, <<>>, 0)
           IN  /\ signal_buffer' = r.buf
               /\ procs' = [procs EXCEPT ![s] =
                      [AfterLoop("processBuffer", pending, r) EXCEPT !.selectedAt = now]]
        /\ UNCHANGED <<stop, serviceVars, interlockVars, lastCall, now, started, deliveryCallback, engine, nextId, relayVars>>

RetryStart ==
    \E s \in Calls, n \in 1..MaxIds :
      \E bufferIds \in [1..n -> Ids] :
        /\ started
        /\ Free(s)
        /\ \A k \in DOMAIN signal_buffer : signal_buffer[k].retry_count < MaxRetryCount
        /\ LET r == RunLoop("retryBufferedSignals", bufferIds, 1, signal_buffer, now, <<>>, 0)
           IN  /\ signal_buffer' = r.buf
               /\ procs' = [procs EXCEPT ![s] = AfterLoop("retryBufferedSignals", bufferIds, r)]
        /\ UNCHANGED <<stop, serviceVars, interlockVars, lastCall, now, started, deliveryCallback, engine, nextId, relayVars>>

FlushStart ==
    \E s \in Calls, targetServer \in Servers \cup {""} :
        /\ started
        /\ Free(s)
        /\ LET pending == getPendingBufferedSignals(signal_buffer, targetServer)
               r == RunLoop("flushBuffer", pending, 1, signal_buffer, now, <<>>, 0)
           IN  /\ signal_buffer' = r.buf
               /\ procs' = [procs EXCEPT ![s] = AfterLoop("flushBuffer", pending, r)]
        /\ UNCHANGED <<stop, serviceVars, interlockVars, lastCall, now, started, deliveryCallback, engine, nextId, relayVars>>

\* socket.send's completion runs the rest of the loop body and the loop on.
\* Once stop() has closed the InterLock socket the next socket.send throws
\* ERR_SOCKET_DGRAM_NOT_RUNNING inside the callback and the call rejects.
Resume(s, op, success) ==
    /\ procs[s].op = op
    /\ procs[s].pc = "await"
    /\ stop # "closed"
    /\ LET b1 == OnResult(op, signal_buffer, InFlight(s), success, now)
           r == RunLoop(op, procs[s].list, procs[s].i + 1, b1, now,
                        procs[s].calls, procs[s].attempted)
       IN  /\ signal_buffer' = r.buf
           /\ procs' = [procs EXCEPT ![s] =
                  [AfterLoop(op, procs[s].list, r) EXCEPT
                      !.selectedAt = procs[s].selectedAt,
                      !.pc = IF stop = "closing" /\ @ = "await" THEN "threw" ELSE @]]
    /\ clients' = IF success THEN emitRelaySent(clients, InFlight(s)) ELSE clients
    /\ UNCHANGED <<stop, relay_stats, interlockVars, lastCall, now, started, deliveryCallback,
                   engine, nextId, relayVars>>

\* socket.send's completion after closeDatabase(): the write goes to the
\* handle the call took from getDatabase() on entry, which is closed, and
\* throws; the call rejects and the row is left as it was
ProcessBufferResumeClosed ==
    \E s \in Calls :
        /\ procs[s].op = "processBuffer"
        /\ procs[s].pc = "await"
        /\ stop = "closed"
        /\ procs' = [procs EXCEPT ![s].pc = "threw"]
        /\ UNCHANGED <<stop, serviceVars, interlockVars, lastCall, now, started,
                       deliveryCallback, engine, signal_buffer, nextId, relayVars>>

\* stop() up to its first await: the heartbeat, buffer and stats tickers are
\* cleared and stopInterLock has called socket.close
StopBegin ==
    /\ started
    /\ stop = "idle"
    /\ stop' = "closing"
    /\ UNCHANGED <<serviceVars, interlockVars, lastCall, now, started, deliveryCallback,
                   engine, bufferVars, relayVars>>

\* stop() after its awaits: the sockets and servers are closed, the
\* WebSocket clients dropped, and closeDatabase() runs
StopClose ==
    /\ stop = "closing"
    /\ stop' = "closed"
    /\ clients' = <<>>
    /\ UNCHANGED <<relay_stats, interlockVars, lastCall, now, started, deliveryCallback,
                   engine, bufferVars, relayVars>>

ProcessBufferResume ==
    \E s \in Calls, success \in BOOLEAN : Resume(s, "processBuffer", success)

\* socket.send's completion when the store write that follows it throws:
\* processBuffer rejects and the pass ends there
ProcessBufferStoreFails ==
    \E s \in Calls, success \in BOOLEAN :
        /\ procs[s].op = "processBuffer"
        /\ procs[s].pc = "await"
        /\ clients' = IF success THEN emitRelaySent(clients, InFlight(s)) ELSE clients
        /\ procs' = [procs EXCEPT ![s].pc = "threw"]
        /\ UNCHANGED <<stop, relay_stats, interlockVars, lastCall, now, started,
                       deliveryCallback, engine, signal_buffer, nextId, relayVars>>

RetryResume ==
    \E s \in Calls, success \in BOOLEAN : Resume(s, "retryBufferedSignals", success)

FlushResume ==
    \E s \in Calls, success \in BOOLEAN : Resume(s, "flushBuffer", success)

\* a call that has returned (or rejected) is over: its number is free for a
\* later call
Return ==
    \E s \in Calls :
        /\ procs[s].pc \in {"done", "threw"}
        /\ procs' = [procs EXCEPT ![s] = Idle]
        /\ UNCHANGED <<stop, serviceVars, interlockVars, lastCall, now, started,
                       deliveryCallback, engine, signal_buffer, nextId, relayVars>>

ClearBufferedSignals ==
    \E bufferIds \in {<<>>} \cup {<<k>> : k \in Ids}, targetServer \in Servers \cup {""} :
        /\ started
        /\ signal_buffer' =
              IF Len(bufferIds) > 0
              THEN deleteBufferedSignal(signal_buffer, bufferIds[1])
              ELSE IF targetServer # ""
              THEN deleteBufferedSignalsByTarget(signal_buffer, targetServer)
              ELSE signal_buffer
        /\ signal_buffer' # signal_buffer
        /\ UNCHANGED <<stop, serviceVars, interlockVars, lastCall, now, started, deliveryCallback, engine, nextId, procs, relayVars>>

\* HTTP POST /api/rules, configure_relay add
AddRule ==
    \E transform \in Transforms, priority \in {0, 1} :
        /\ started
        /\ rule_seq < MaxRules
        /\ rule_seq' = rule_seq + 1
        /\ relay_rules' = insertRelayRule(relay_rules,
               [id |-> rule_seq + 1, signal_pattern |-> 80,
                source_filter |-> "", relay_to |-> <<"B">>, transform |-> transform,
                priority |-> priority, enabled |-> 1, match_count |-> 0])
        /\ UNCHANGED <<stop, serviceVars, interlockVars, lastCall, now, started, deliveryCallback, engine,
                       bufferVars, signal_relays, relay>>

\* relaySignal up to its await: rules matched, payload transformed, one
\* sendToTarget started per entry of target_servers
RelaySignalStart ==
    \E signal_type \in {80}, source_server \in Sources, n \in 1..MaxTargets,
       payload \in Payloads, priority \in {"normal", "urgent"},
       buffer_if_offline \in BOOLEAN :
      \E target_servers \in [1..n -> RelayServers] :
        /\ started
        /\ relay.pc \in {"idle", "returned"}
        /\ relay.relay_id < MaxRelays
        /\ LET m == matchRules(relay_rules, signal_type, source_server)
               sends == [i \in 1..n |-> sendToTarget(target_servers[i])]
           IN  /\ relay_rules' = m.table
               /\ relay' = [pc |-> "sending",
                            relay_id |-> relay.relay_id + 1,
                            request |-> [signal_type |-> signal_type,
                                         source_server |-> source_server,
                                         target_servers |-> target_servers,
                                         payload |-> payload,
                                         priority |-> priority,
                                         buffer_if_offline |-> buffer_if_offline],
                            startTime |-> now,
                            payload |-> TransformAll(payload, m.rules),
                            sends |-> sends,
                            datagrams |-> Pick(target_servers,
                                               [i \in 1..n |-> sends[i] = "inflight"], 1)]
        /\ UNCHANGED <<stop, serviceVars, interlockVars, lastCall, now, started, deliveryCallback, engine,
                       bufferVars, rule_seq, signal_relays>>

\* the callback of one udpSocket.send
SendComplete ==
    \E i \in 1..MaxTargets, err \in BOOLEAN :
        /\ relay.pc = "sending"
        /\ i <= Len(relay.sends)
        /\ relay.sends[i] = "inflight"
        /\ relay' = [relay EXCEPT !.sends[i] = IF err THEN "err" ELSE "ok"]
        /\ UNCHANGED <<stop, serviceVars, interlockVars, lastCall, now, started, deliveryCallback, engine,
                       bufferVars, relay_rules, rule_seq, signal_relays>>

RECURSIVE BufferAll(_, _, _, _, _)
BufferAll(buf, id, targets, r, t) ==
    IF targets = <<>> THEN buf
    ELSE BufferAll(insertBufferedSignal(buf,
                       NewRow(id + 1, r.request.signal_type, r.request.source_server,
                              Head(targets), r.payload, r.request.priority,
                              DEFAULT_TTL_HOURS, t)),
                   id + 1, Tail(targets), r, t)

\* relaySignal after its await: classify, buffer, record, return
RelaySignalFinish ==
    /\ relay.pc = "sending"
    /\ AllSettled(relay.sends)
    /\ LET targets == relay.request.target_servers
           reached == TargetsReached(targets, relay.sends)
           failed == TargetsFailed(targets, relay.sends)
           buffered == TargetsBuffered(failed, relay.request.buffer_if_offline)
           latencyMs == now - relay.startTime
       IN  /\ signal_buffer' = BufferAll(signal_buffer, nextId, buffered, relay, now)
           /\ nextId' = nextId + Len(buffered)
           /\ signal_relays' = Append(signal_relays,
                  [id |-> relay.relay_id,
                   signal_type |-> relay.request.signal_type,
                   source_server |-> relay.request.source_server,
                   target_servers |-> targets,
                   payload |-> relay.payload,
                   priority |-> relay.request.priority,
                   relayed_at |-> now,
                   success |-> IF Len(reached) > 0 THEN 1 ELSE 0,
                   targets_reached |-> reached,
                   targets_failed |-> failed,
                   latency_ms |-> latencyMs])
           /\ relay' = [pc |-> "returned",
                        relay_id |-> relay.relay_id,
                        request |-> relay.request,
                        payload |-> relay.payload,
                        sends |-> relay.sends,
                        datagrams |-> relay.datagrams,
                        firstId |-> nextId,
                        result |-> [relay_id |-> relay.relay_id,
                                    relayed |-> Len(reached) > 0,
                                    targets_reached |-> reached,
                                    targets_failed |-> failed,
                                    targets_buffered |-> buffered,
                                    latency_ms |-> latencyMs]]
    /\ UNCHANGED <<stop, serviceVars, interlockVars, lastCall, now, started, deliveryCallback, engine, procs,
                   relay_rules, rule_seq>>

\* socket.on('message'): decode, validate, handle.  The datagrams carry
\* signal types whose handlers touch no table.
OnMessage ==
    \E d \in Datagrams :
        /\ started
        /\ engine
        /\ LET message == decodeMessage(d, now)
           IN  lastCall' = [op |-> "message", datagram |-> d, message |-> message,
                            at |-> now,
                            outcome |-> IF message = NoMessage THEN "undecodable"
                                        ELSE IF ~validateMessage(tumbler, message, now)
                                        THEN "rejected"
                                        ELSE handleMessage(message)]
        /\ UNCHANGED <<stop, serviceVars, interlockVars, now, started, deliveryCallback, engine,
                       bufferVars, relayVars>>

\* a message this server encodes (a reply, a heartbeat) as the peer's
\* decodeMessage reads it
EncodeMessage ==
    \E signalType \in {1, 81, 82, 255}, sender \in {"synapse-relay", "A", ""},
       payload \in CodecPayloads :
        /\ LET d == encodeMessage(signalType, sender, payload, now)
           IN  lastCall' = [op |-> "encodeMessage", signalType |-> signalType,
                            sender |-> sender, payload |-> payload, datagram |-> d,
                            message |-> decodeMessage(d, now),
                            decoded |-> binaryPayload(d)]
        /\ UNCHANGED <<stop, serviceVars, interlockVars, now, started, deliveryCallback, engine,
                       bufferVars, relayVars>>

\* applyTransform over an alias of its argument instead of a copy
ApplyTransform_InPlace ==
    \E payload \in UNION {[keys -> {"1", "2"}] : keys \in SUBSET {"a", "b"}},
       ta \in {<<>>, <<[key |-> "a", kind |-> "set", arg |-> "9"]>>,
               <<[key |-> "a", kind |-> "delete", arg |-> ""]>>,
               <<[key |-> "a", kind |-> "rename", arg |-> "b"]>>},
       tb \in {<<>>, <<[key |-> "b", kind |-> "set", arg |-> "1"]>>,
               <<[key |-> "b", kind |-> "delete", arg |-> ""]>>,
               <<[key |-> "b", kind |-> "rename", arg |-> "a"]>>},
       swap \in BOOLEAN :
        /\ LET transform == IF swap THEN tb \o ta ELSE ta \o tb
               result == applyTransform(payload, transform)
           IN  lastCall' = [op |-> "applyTransform", payload |-> payload,
                            transform |-> transform, result |-> result,
                            after |-> result,
                            again |-> applyTransform(result, transform)]
        /\ UNCHANGED <<stop, serviceVars, interlockVars, now, started, deliveryCallback, engine,
                       bufferVars, relayVars>>

\* a call of applyTransform and a second call on its result; "after" is the
\* caller's payload object once the call returned (the loop writes to the
\* copy made on entry)
ApplyTransform ==
    \E payload \in UNION {[keys -> {"1", "2"}] : keys \in SUBSET {"a", "b"}},
       ta \in {<<>>, <<[key |-> "a", kind |-> "set", arg |-> "9"]>>,
               <<[key |-> "a", kind |-> "delete", arg |-> ""]>>,
               <<[key |-> "a", kind |-> "rename", arg |-> "b"]>>},
       tb \in {<<>>, <<[key |-> "b", kind |-> "set", arg |-> "1"]>>,
               <<[key |-> "b", kind |-> "delete", arg |-> ""]>>,
               <<[key |-> "b", kind |-> "rename", arg |-> "a"]>>},
       swap \in BOOLEAN :
        /\ LET transform == IF swap THEN tb \o ta ELSE ta \o tb
               result == applyTransform(payload, transform)
           IN  lastCall' = [op |-> "applyTransform", payload |-> payload,
                            transform |-> transform, result |-> result,
                            after |-> payload,
                            again |-> applyTransform(result, transform)]
        /\ UNCHANGED <<stop, serviceVars, interlockVars, now, started, deliveryCallback, engine,
                       bufferVars, relayVars>>

\* a handler that answers nothing when relaySignal threw
relayReplies_NoFailureReply(sender, threw) ==
    IF sender \in engine_peer_ports /\ ~threw
    THEN <<[to |-> sender, signalType |-> SignalTypes["RELAY_RESPONSE"]]>>
    ELSE <<>>

\* handleRelayRequest's replies: getPeerPort(sender) guards both sends
relayReplies(sender, threw) ==
    IF sender \in engine_peer_ports
    THEN <<[to |-> sender,
            signalType |-> IF threw THEN SignalTypes["RELAY_FAILED"]
                           ELSE SignalTypes["RELAY_RESPONSE"]]>>
    ELSE <<>>

\* a validated RELAY_REQUEST reaches handleRelayRequest, which runs up to
\* its await of relaySignal.  A payload without target_servers makes
\* relaySignal throw after matchRules, and the catch block answers.
HandleRelayRequest ==
    \E sender \in {"A", "Z"}, hasTargets \in BOOLEAN, n \in 0..MaxTargets,
       payload \in Payloads :
      \E target_servers \in [1..n -> RelayServers] :
        /\ started
        /\ engine
        /\ ~hasTargets => n = 0
        /\ \A k \in DOMAIN relay_rules : relay_rules[k].match_count < MaxMatchCount
        /\ validateMessage(tumbler,
                           [signalType |-> SignalTypes["RELAY_REQUEST"],
                            timestamp |-> FloorSeconds(now), sender |-> sender], now)
        /\ lastCall.op = "RELAY_REQUEST" => lastCall.pc = "done"
        /\ relay.pc \in {"idle", "returned"}
        /\ relay.relay_id < MaxRelays
        /\ LET m == matchRules(relay_rules, SignalTypes["RELAY_REQUEST"], sender)
               sends == [i \in 1..n |-> sendToTarget(target_servers[i])]
           IN  /\ relay_rules' = m.table
               /\ IF ~hasTargets
                  THEN /\ relay' = relay
                       /\ lastCall' = [op |-> "RELAY_REQUEST", sender |-> sender,
                                       pc |-> "done", outcome |-> "threw",
                                       replies |-> relayReplies(sender, TRUE)]
                  ELSE /\ relay' = [pc |-> "sending",
                                    relay_id |-> relay.relay_id + 1,
                                    request |-> [signal_type |-> SignalTypes["RELAY_REQUEST"],
                                                 source_server |-> sender,
                                                 target_servers |-> target_servers,
                                                 payload |-> payload,
                                                 priority |-> "normal",
                                                 buffer_if_offline |-> TRUE],
                                    startTime |-> now,
                                    payload |-> TransformAll(payload, m.rules),
                                    sends |-> sends,
                                    datagrams |-> Pick(target_servers,
                                                       [i \in 1..n |-> sends[i] = "inflight"], 1)]
                       /\ lastCall' = [op |-> "RELAY_REQUEST", sender |-> sender,
                                       pc |-> "await", outcome |-> "pending",
                                       replies |-> <<>>]
        /\ UNCHANGED <<stop, serviceVars, interlockVars, now, started, deliveryCallback, engine,
                       bufferVars, rule_seq, signal_relays>>

\* handleRelayRequest after its await: relaySignal has returned
HandleRelayRequestReply ==
    /\ lastCall.op = "RELAY_REQUEST"
    /\ lastCall.pc = "await"
    /\ relay.pc = "returned"
    /\ lastCall' = [lastCall EXCEPT !.pc = "done", !.outcome = "returned",
                                    !.replies = relayReplies(lastCall.sender, FALSE)]
    /\ UNCHANGED <<stop, serviceVars, interlockVars, now, started, deliveryCallback, engine,
                   bufferVars, relayVars>>

\* ------------------------------------------------------ stats aggregator

\* Date.now() when the model's clock reads 0: far from the epoch, here on an
\* hour boundary.  Stored times (relayed_at, buffered_at) count from it.
StartTime == 2 * 3600000

\* SELECT COUNT(*) ... WHERE status = ?, four times
getBufferStats(buf) ==
    [st \in {"pending", "delivered", "expired", "failed"} |->
        Cardinality({k \in DOMAIN buf : buf[k].status = st})]

\* aggregateHourlyStats at Date.now() = t: the relays since the start of the
\* hour before last are grouped by signal_type:source_server:target and one
\* row per group is inserted, in the order the groups were first met
\* (relays newest first).  The latency columns are left out.
aggregateHourlyStats(relays, stats, t) ==
    LET periodStart == ((t - 3600000) \div 3600000) * 3600000
        history == SelectSeq([j \in 1..Len(relays) |-> relays[Len(relays) + 1 - j]],
                             LAMBDA r : StartTime + r.relayed_at >= periodStart)
        Key(r, target) == [signal_type |-> r.signal_type,
                           source_server |-> r.source_server,
                           target_server |-> target]
        RECURSIVE Keys(_, _, _)
        Keys(j, i, seen) ==
            IF j > Len(history) THEN seen
            ELSE IF i > Len(history[j].target_servers) THEN Keys(j + 1, 1, seen)
            ELSE LET k == Key(history[j], history[j].target_servers[i])
                 IN  Keys(j, i + 1, IF k \in Range(seen) THEN seen ELSE Append(seen, k))
        keys == Keys(1, 1, <<>>)
        Hits(k, field) ==
            Cardinality({<<j, i>> \in (1..Len(history)) \X (1..MaxTargets) :
                /\ i <= Len(history[j].target_servers)
                /\ Key(history[j], history[j].target_servers[i]) = k
                /\ field = "targets_reached"
                       => k.target_server \in Range(history[j].targets_reached)
                /\ field = "targets_failed"
                       => k.target_server \in Range(history[j].targets_failed)})
    IN  stats \o [n \in 1..Len(keys) |->
                     [period_start |-> periodStart,
                      signal_type |-> keys[n].signal_type,
                      source_server |-> keys[n].source_server,
                      target_server |-> keys[n].target_server,
                      total_relayed |-> Hits(keys[n], "target_servers"),
                      success_count |-> Hits(keys[n], "targets_reached"),
                      failure_count |-> Hits(keys[n], "targets_failed"),
                      buffered_count |-> 0]]

\* getRelayStatistics without until: the rows with period_start >= since are
\* summed, and summed per source_server when groupBy is "source" ("none":
\* no group_by).  The rates and latencies computed from the sums are left
\* out.  buffer_stats copies three of getBufferStats' four counts.
getRelayStatistics(stats, buf, since, groupBy) ==
    LET rows == SelectSeq(stats, LAMBDA r : r.period_start >= since)
        Sum(S, field) ==
            LET RECURSIVE Add(_)
                Add(j) == IF j > Len(rows) THEN 0
                          ELSE (IF j \in S THEN rows[j][field] ELSE 0) + Add(j + 1)
            IN  Add(1)
        groups == IF groupBy = "source"
                  THEN {rows[j].source_server : j \in 1..Len(rows)}
                  ELSE {}
        bufferStats == getBufferStats(buf)
    IN  [total_relayed |-> Sum(1..Len(rows), "total_relayed"),
         by_group |-> [g \in groups |->
             LET S == {j \in 1..Len(rows) : rows[j].source_server = g}
             IN  [count |-> Sum(S, "total_relayed"), success |-> Sum(S, "success_count")]],
         buffer_stats |-> [pending |-> bufferStats["pending"],
                           delivered |-> bufferStats["delivered"],
                           expired |-> bufferStats["expired"]]]

\* the rollup ticker (and start(), which runs it once)
AggregateHourlyStats ==
    /\ stop = "idle"
    /\ started
    /\ Len(relay_stats) < MaxStatsRows
    /\ relay_stats' = aggregateHourlyStats(signal_relays, relay_stats, StartTime + now)
    /\ UNCHANGED <<stop, clients, interlockVars, lastCall, now, started, deliveryCallback,
                   engine, bufferVars, relayVars>>

\* get_relay_stats; since left out is the last 24 hours
HandleGetRelayStats ==
    \E hasSince \in BOOLEAN, group_by \in {"none", "source"} :
        /\ started
        /\ LET since == IF hasSince THEN 0 ELSE StartTime + now - 24 * 60 * 60 * 1000
           IN  lastCall' = [op |-> "get_relay_stats", since |-> since,
                            group_by |-> group_by,
                            output |-> getRelayStatistics(relay_stats, signal_buffer,
                                                          since, group_by)]
        /\ UNCHANGED <<stop, serviceVars, interlockVars, now, started, deliveryCallback,
                       engine, bufferVars, relayVars>>

\* ------------------------------------------ WebSocket service requests

\* wss.on('connection'); requested keeps the topics the client itself has
\* asked for in subscribe messages and not withdrawn
Connect ==
    \E c \in 1..MaxClients :
        /\ started
        /\ c \notin DOMAIN clients
        /\ \A q \in 1..(c - 1) : q \in DOMAIN clients
        /\ clients' = [k \in DOMAIN clients \cup {c} |->
                          IF k = c
                          THEN [topics |-> {<<"*">>},
                                requested |-> {},
                                received |-> {[type |-> <<"relay", "sent">>,
                                               data |-> "Connected"]}]
                          ELSE clients[k]]
        /\ UNCHANGED <<stop, relay_stats, interlockVars, lastCall, now, started,
                       deliveryCallback, engine, bufferVars, relayVars>>

\* ws.on('close')
Disconnect ==
    \E c \in DOMAIN clients :
        /\ clients' = [k \in DOMAIN clients \ {c} |-> clients[k]]
        /\ UNCHANGED <<stop, relay_stats, interlockVars, lastCall, now, started,
                       deliveryCallback, engine, bufferVars, relayVars>>

\* a subscribe message; topics left out stand for ['*']
Subscribe ==
    \E c \in DOMAIN clients,
       topics \in {{<<"*">>}, {<<"relay", "*">>}, {<<"relay", "buffered">>}} :
        /\ clients' = sendTo([clients EXCEPT ![c].topics = @ \cup topics,
                                              ![c].requested = @ \cup topics], c,
                             <<"relay", "sent">>, "subscribed")
        /\ UNCHANGED <<stop, relay_stats, interlockVars, lastCall, now, started,
                       deliveryCallback, engine, bufferVars, relayVars>>

\* an unsubscribe message
Unsubscribe ==
    \E c \in DOMAIN clients,
       topics \in {{<<"*">>}, {<<"relay", "*">>}, {<<"relay", "buffered">>}} :
        /\ clients' = sendTo([clients EXCEPT ![c].topics = @ \ topics,
                                              ![c].requested = @ \ topics], c,
                             <<"relay", "sent">>, "subscribed")
        /\ UNCHANGED <<stop, relay_stats, interlockVars, lastCall, now, started,
                       deliveryCallback, engine, bufferVars, relayVars>>

\* emitRelaySent, emitRelayFailed, emitRelayBuffered, emitBufferRetry,
\* emitBufferExpired, emitStatsUpdate: only emitRelayBuffered passes a topic
\* of its own, relay:target:<targetServer>
Emit ==
    \E type \in {<<"relay", "sent">>, <<"relay", "failed">>, <<"relay", "buffered">>,
                  <<"buffer", "retry">>, <<"buffer", "expired">>, <<"stats", "update">>},
       targetServer \in {"A"} :
        /\ started
        /\ LET topic == IF type = <<"relay", "buffered">>
                        THEN <<"relay", "target", targetServer>>
                        ELSE type
           IN  /\ clients' = broadcast(clients, type, targetServer, topic)
               /\ lastCall' = [op |-> "broadcast", type |-> type, topic |-> topic,
                               topics |-> [c \in DOMAIN clients |-> clients[c].topics],
                               receivers |-> Receivers(clients, topic)]
        /\ UNCHANGED <<stop, relay_stats, interlockVars, now, started, deliveryCallback,
                       engine, bufferVars, relayVars>>

\* configure_relay add / update / remove
HandleConfigureRelay ==
    \E input \in RuleInputs :
        /\ started
        /\ input.action = "add" => rule_seq < MaxToolRules
        /\ IF configureRelayThrows(input)
           THEN /\ UNCHANGED <<stop, relay_rules, rule_seq>>
                /\ lastCall' = [op |-> "configure_relay", input |-> input, error |-> TRUE]
           ELSE /\ relay_rules' = applyRuleRequest(relay_rules, rule_seq, input)
                /\ rule_seq' = IF input.action = "add" THEN rule_seq + 1 ELSE rule_seq
                /\ lastCall' = [op |-> "configure_relay", input |-> input, error |-> FALSE]
        /\ UNCHANGED <<stop, serviceVars, interlockVars, now, started, deliveryCallback, engine, bufferVars,
                       signal_relays, relay>>

\* POST /api/rules
PostRule ==
    \E input \in RuleInputs :
        /\ started
        /\ input.action = "add"
        /\ rule_seq < MaxToolRules
        /\ IF postRuleRefused(input)
           THEN /\ UNCHANGED <<stop, relay_rules, rule_seq>>
                /\ lastCall' = [op |-> "POST /api/rules", input |-> input, error |-> TRUE]
           ELSE /\ relay_rules' = applyRuleRequest(relay_rules, rule_seq, input)
                /\ rule_seq' = rule_seq + 1
                /\ lastCall' = [op |-> "POST /api/rules", input |-> input, error |-> FALSE]
        /\ UNCHANGED <<stop, serviceVars, interlockVars, now, started, deliveryCallback, engine, bufferVars,
                       signal_relays, relay>>

\* PUT /api/rules/:id and DELETE /api/rules/:id; 404 when no row changed
PutOrDeleteRule ==
    \E input \in RuleInputs :
        /\ started
        /\ input.action \in {"update", "remove"}
        /\ input.rule_id # NULL
        /\ relay_rules' = applyRuleRequest(relay_rules, rule_seq, input)
        /\ lastCall' = [op |-> "/api/rules/:id", input |-> input,
                        error |-> input.rule_id \notin DOMAIN relay_rules]
        /\ UNCHANGED <<stop, serviceVars, interlockVars, now, started, deliveryCallback, engine, bufferVars,
                       rule_seq, signal_relays, relay>>

\* a matchRules call (from relaySignal or getAutoRelayTargets); the rows it
\* returns are the ones read before the counts were bumped
MatchRules ==
    \E signalType \in {80, 81}, sourceServer \in Sources :
        /\ started
        /\ \A k \in DOMAIN relay_rules : relay_rules[k].match_count < MaxMatchCount
        /\ LET m == matchRules(relay_rules, signalType, sourceServer)
           IN  /\ relay_rules' = m.table
               /\ lastCall' = [op |-> "matchRules", signalType |-> signalType,
                               sourceServer |-> sourceServer, rules |-> m.rules]
        /\ UNCHANGED <<stop, serviceVars, interlockVars, now, started, deliveryCallback, engine, bufferVars,
                       rule_seq, signal_relays, relay>>

\* buffer_signals clear
HandleBufferSignalsClear ==
    \E input \in ClearInputs :
        /\ started
        /\ LET r == clearBufferedSignals(signal_buffer, input.buffer_ids,
                                         input.target_server, 0)
           IN  /\ signal_buffer' = r.buf
               /\ lastCall' = [op |-> "clear", input |-> input, at |-> now,
                               before |-> signal_buffer, after |-> r.buf,
                               affected_count |-> r.cleared]
        /\ UNCHANGED <<stop, serviceVars, interlockVars, now, started, deliveryCallback, engine, nextId, procs,
                       relayVars>>

Next ==
    \/ StartInterLock
    \/ StartInterLockFailed
    \/ Tick
    \/ BufferSignal
    \/ ProcessBufferStart
    \/ ProcessBufferResume
    \/ RetryStart
    \/ RetryResume
    \/ FlushStart
    \/ FlushResume
    \/ ClearBufferedSignals

Spec == Init /\ [][Next]_vars

\* the delivery engine alone: rules, relaySignal calls and their sends
NextRelay ==
    \/ StartInterLock
    \/ StartInterLockFailed
    \/ Tick
    \/ AddRule
    \/ RelaySignalStart
    \/ SendComplete
    \/ RelaySignalFinish

SpecRelay == Init /\ [][NextRelay]_vars

\* the InterLock socket alone: configuration, clock and arriving datagrams
NextInterLock ==
    \/ StartInterLock
    \/ StartInterLockFailed
    \/ Tick
    \/ OnMessage

SpecInterLock == InitInterLock /\ [][NextInterLock]_vars

\* the rule table alone: the requests that change it and matchRules
NextRules ==
    \/ StartInterLock
    \/ StartInterLockFailed
    \/ HandleConfigureRelay
    \/ PostRule
    \/ PutOrDeleteRule
    \/ MatchRules

SpecRules == Init /\ [][NextRules]_vars

\* the buffer table under bufferSignal and buffer_signals clear
NextClear ==
    \/ StartInterLock
    \/ StartInterLockFailed
    \/ Tick
    \/ BufferSignal
    \/ HandleBufferSignalsClear

SpecClear == Init /\ [][NextClear]_vars

\* the wire codec alone: encodeMessage and the peer's decodeMessage
NextCodec ==
    \/ Tick
    \/ EncodeMessage

SpecCodec == Init /\ [][NextCodec]_vars

\* RELAY_REQUEST datagrams and the relaySignal calls they start
NextHandler ==
    \/ StartInterLock
    \/ StartInterLockFailed
    \/ Tick
    \/ AddRule
    \/ HandleRelayRequest
    \/ SendComplete
    \/ RelaySignalFinish
    \/ HandleRelayRequestReply

SpecHandler == Init /\ [][NextHandler]_vars

\* the WebSocket service alone: clients, subscriptions and broadcasts
NextWs ==
    \/ StartInterLock
    \/ StartInterLockFailed
    \/ Connect
    \/ Disconnect
    \/ Subscribe
    \/ Unsubscribe
    \/ Emit

SpecWs == Init /\ [][NextWs]_vars

\* the buffer ticker with a store whose writes can fail, and a subscriber
NextEvents ==
    \/ StartInterLock
    \/ StartInterLockFailed
    \/ Tick
    \/ BufferSignal
    \/ Connect
    \/ ProcessBufferStart
    \/ ProcessBufferResume
    \/ ProcessBufferStoreFails

SpecEvents == Init /\ [][NextEvents]_vars

\* relays, the hourly rollup and the stats query
NextStats ==
    \/ StartInterLock
    \/ StartInterLockFailed
    \/ Tick
    \/ RelaySignalStart
    \/ SendComplete
    \/ RelaySignalFinish
    \/ AggregateHourlyStats
    \/ HandleGetRelayStats

SpecStats == Init /\ [][NextStats]_vars

\* the retry ticker over rows of every priority
NextPriority ==
    \/ StartInterLock
    \/ StartInterLockFailed
    \/ Tick
    \/ BufferSignalPriority
    \/ ProcessBufferStart
    \/ ProcessBufferResume

SpecPriority == Init /\ [][NextPriority]_vars

\* relaySignal over a store that holds two rules
NextCompose ==
    \/ StartInterLock
    \/ StartInterLockFailed
    \/ Tick
    \/ RelaySignalStart
    \/ SendComplete
    \/ RelaySignalFinish

SpecCompose == InitRules /\ [][NextCompose]_vars

\* applyTransform alone
NextTransform ==
    \/ Tick
    \/ ApplyTransform

SpecTransform == Init /\ [][NextTransform]_vars

\* the retry ticker and the shutdown path
NextStop ==
    \/ StartInterLock
    \/ StartInterLockFailed
    \/ Tick
    \/ BufferSignal
    \/ ProcessBufferStart
    \/ ProcessBufferResume
    \/ ProcessBufferResumeClosed
    \/ StopBegin
    \/ StopClose

SpecStop == Init /\ [][NextStop]_vars

\* the buffer under its ticker alone, with passes that come and go.  The
\* clock advances, the ticker keeps firing (setInterval), every socket.send
\* calls back and every pass that returned is over.
NextLive ==
    \/ StartInterLock
    \/ StartInterLockFailed
    \/ Tick
    \/ BufferSignal
    \/ ProcessBufferStart
    \/ ProcessBufferResume
    \/ Return

SpecLive ==
    /\ Init /\ [][NextLive]_vars
    /\ WF_vars(Tick)
    /\ WF_vars(ProcessBufferStart)
    /\ WF_vars(ProcessBufferResume)
    /\ WF_vars(Return)

\* ------------------------------------------------------------- claims

Terminal(status) == status \in {"delivered", "failed", "expired"}

Waiting(c) == procs[c].pc = "await"

\* C1: every signal_buffer row has 0 <= retry_count <= max_retries in every
\* reachable state, whatever mix of bufferSignal, processBuffer,
\* retryBufferedSignals and flushBuffer ran.
C1_RetryCountWithinBudget ==
    \A k \in DOMAIN signal_buffer :
        /\ 0 <= signal_buffer[k].retry_count
        /\ signal_buffer[k].retry_count <= signal_buffer[k].max_retries

\* C2: once a row's status is delivered, failed or expired, no step of any
\* call changes that status.
C2_TerminalStatusIsFinal ==
    [][\A k \in DOMAIN signal_buffer \cap DOMAIN signal_buffer' :
          Terminal(signal_buffer[k].status)
              => signal_buffer'[k].status = signal_buffer[k].status]_vars

\* C3: every row a call selects for a delivery attempt (the lists read by
\* processBuffer and flushBuffer, the row retryBufferedSignals reads for an
\* id, and so every row handed to the callback) had status pending in the
\* store when it was read.
C3_SelectedRowsArePending ==
    \A c \in Calls :
        /\ procs[c].op \in {"processBuffer", "flushBuffer"}
              => \A j \in 1..Len(procs[c].list) : procs[c].list[j].status = "pending"
        /\ \A j \in 1..Len(procs[c].calls) : procs[c].calls[j].status = "pending"

\* a call selected and attempted rows while the store held a terminal row,
\* which it left out
C3_Witness ==
    \E c \in Calls, k \in DOMAIN signal_buffer :
        /\ procs[c].op \in {"processBuffer", "flushBuffer"}
        /\ procs[c].calls # <<>>
        /\ signal_buffer[k].status = "expired"
        /\ \A j \in 1..Len(procs[c].list) : procs[c].list[j].id # k

\* C4: at most one delivery-callback invocation is in flight for a given
\* buffered-signal id at any moment.
C4_OneAttemptInFlightPerRow ==
    \A c1, c2 \in Calls :
        (c1 # c2 /\ Waiting(c1) /\ Waiting(c2)) => InFlight(c1).id # InFlight(c2).id

C10_RetryCallsEachPendingRowOnce ==
    \A c \in Calls :
        (procs[c].op = "retryBufferedSignals" /\ procs[c].pc = "done" /\ deliveryCallback)
            => /\ \A j \in 1..Len(procs[c].calls) : procs[c].calls[j].status = "pending"
               /\ Len(procs[c].calls) = procs[c].attempted
               /\ \A k \in Ids : Count(procs[c].calls, k) <= 1

RECURSIVE Occurrences(_, _)
Occurrences(s, x) ==
    IF s = <<>> THEN 0
    ELSE (IF Head(s) = x THEN 1 ELSE 0) + Occurrences(Tail(s), x)

\* C5: in every signal_relays row targets_reached and targets_failed are
\* subsets of target_servers, share no element, and success = 1 exactly when
\* targets_reached is non-empty.
C5_RelayRecordWellFormed ==
    \A j \in 1..Len(signal_relays) :
        LET r == signal_relays[j] IN
        /\ Range(r.targets_reached) \subseteq Range(r.target_servers)
        /\ Range(r.targets_failed) \subseteq Range(r.target_servers)
        /\ Range(r.targets_reached) \cap Range(r.targets_failed) = {}
        /\ (r.success = 1 <=> Len(r.targets_reached) > 0)

\* C6: within one relaySignal call no server is handed more than one
\* datagram.
C6_OneDatagramPerTarget ==
    relay.pc \in {"sending", "returned"}
        => \A s \in RelayServers : Occurrences(relay.datagrams, s) <= 1

C8_RecordAfterAllSends ==
    LET mine == {j \in 1..Len(signal_relays) : signal_relays[j].id = relay.relay_id} IN
    /\ relay.pc = "sending" => mine = {}
    /\ relay.pc = "returned"
           => /\ Cardinality(mine) = 1
              /\ \A i \in 1..Len(relay.sends) : relay.sends[i] # "inflight"
    /\ mine # {} => \A i \in 1..Len(relay.sends) : relay.sends[i] # "inflight"

\* a call to two servers has returned, one send succeeded and one failed
C8_Witness ==
    /\ relay.pc = "returned"
    /\ relay.sends = <<"ok", "err">>
    /\ Len(signal_relays) = 1
    /\ signal_relays[1].targets_reached = <<"A">>
    /\ signal_relays[1].targets_failed = <<"B">>

\* the rows of a table that a clear request's filters select: the listed ids
\* when ids are given, otherwise every given filter must hold
ClearMatches(before, input, at) ==
    IF Len(input.buffer_ids) > 0
    THEN Range(input.buffer_ids) \cap DOMAIN before
    ELSE {k \in DOMAIN before :
            /\ input.target_server # "" => before[k].target_server = input.target_server
            /\ input.signal_type # NULL => before[k].signal_type = input.signal_type
            /\ input.max_age_hours # NULL
                  => before[k].buffered_at >= at - input.max_age_hours * 60 * 60 * 1000}

\* C11: a clear request with at least one filter deletes exactly the rows its
\* filters select (the listed ids when ids are given, otherwise the rows
\* matching target, signal_type and max_age_hours), returns their number and
\* leaves every other row as it was.
C11_ClearDeletesExactlyMatching ==
    (/\ lastCall.op = "clear"
     /\ \/ Len(lastCall.input.buffer_ids) > 0
        \/ lastCall.input.target_server # ""
        \/ lastCall.input.signal_type # NULL
        \/ lastCall.input.max_age_hours # NULL)
        => LET matching == ClearMatches(lastCall.before, lastCall.input, lastCall.at)
           IN  /\ DOMAIN lastCall.after = DOMAIN lastCall.before \ matching
               /\ \A k \in DOMAIN lastCall.after : lastCall.after[k] = lastCall.before[k]
               /\ lastCall.affected_count = Cardinality(matching)

\* C12: at the step that completes a processBuffer pass, no row is pending
\* with expires_at earlier than the clock.
C12_NoPendingExpiredAtCompletion ==
    [][\A c \in Calls :
          (procs[c].pc # "done" /\ procs'[c].pc = "done" /\ procs'[c].op = "processBuffer")
              => \A k \in DOMAIN signal_buffer' :
                     ~(/\ signal_buffer'[k].status = "pending"
                       /\ signal_buffer'[k].expires_at # NULL
                       /\ signal_buffer'[k].expires_at < now')]_vars

\* C13: a relaySignal call whose signal matched an enabled rule attempts a
\* send to every server of that rule's relay_to.
C13_RuleTargetsAreSent ==
    relay.pc \in {"sending", "returned"}
        => \A k \in DOMAIN relay_rules :
               (relay_rules[k].enabled = 1 /\ relay_rules[k].match_count > 0)
                   => Range(relay_rules[k].relay_to) \subseteq Range(relay.request.target_servers)

\* scenario S5: the rule's transform and the request's payload
S5Transform ==
    <<[key |-> "ts", kind |-> "set", arg |-> "123"],
      [key |-> "old", kind |-> "delete", arg |-> ""],
      [key |-> "new", kind |-> "rename", arg |-> "old"]>>

S5Payload == [k \in {"old", "keep"} |-> IF k = "old" THEN "v" ELSE "true"]

\* the relaySignal call that starts in this step is the one of S5
S5Starts ==
    /\ relay.pc \in {"idle", "returned"}
    /\ relay'.pc = "sending"
    /\ DOMAIN relay_rules = {1}
    /\ relay_rules[1].transform = S5Transform
    /\ relay_rules[1].match_count = 0
    /\ relay'.request.payload = S5Payload

\* C14 as stated: in S5 the payload sent is {"keep": true, "new": "v",
\* "ts": 123} and the rule's match_count is 1 afterwards; the payload
\* recorded is the payload sent.
C14_S5PayloadRenamed ==
    [][/\ S5Starts
          => /\ relay'.payload =
                   [k \in {"keep", "new", "ts"} |->
                       CASE k = "keep" -> "true" [] k = "new" -> "v" [] k = "ts" -> "123"]
             /\ relay_rules'[1].match_count = 1
       /\ (relay.pc = "sending" /\ relay'.pc = "returned")
          => signal_relays'[Len(signal_relays')].payload = relay.payload]_vars

\* C14 amended: in S5 the payload sent is {"keep": true, "ts": 123} (the
\* entries apply in insertion order, so "old" is gone before the rename
\* looks for it) and the rule's match_count is 1 afterwards; the payload
\* recorded is the payload sent.
C14_S5PayloadInInsertionOrder ==
    [][/\ S5Starts
          => /\ relay'.payload =
                   [k \in {"keep", "ts"} |-> IF k = "keep" THEN "true" ELSE "123"]
             /\ relay_rules'[1].match_count = 1
       /\ (relay.pc = "sending" /\ relay'.pc = "returned")
          => signal_relays'[Len(signal_relays')].payload = relay.payload]_vars

\* the S5 call has returned and its record holds the transformed payload
C14_Witness ==
    /\ relay.pc = "returned"
    /\ DOMAIN relay_rules = {1}
    /\ relay_rules[1].transform = S5Transform
    /\ relay_rules[1].match_count = 1
    /\ relay.request.payload = S5Payload
    /\ DOMAIN relay.payload = {"keep", "ts"}
    /\ signal_relays[1].payload = relay.payload

\* C15: every rule matchRules returns has a non-empty relay_to.
C15_MatchedRulesHaveTargets ==
    lastCall.op = "matchRules"
        => \A j \in 1..Len(lastCall.rules) : Len(lastCall.rules[j].relay_to) > 0

\* C16: matchRules returns exactly the rules that are enabled, have
\* signal_pattern equal to signal_type and whose source_filter is absent, is
\* no valid regular expression or matches source_server, each once.
C16_MatchReturnsExactlyMatching ==
    lastCall.op = "matchRules"
        => /\ {lastCall.rules[j].id : j \in 1..Len(lastCall.rules)}
                = {k \in DOMAIN relay_rules :
                     /\ relay_rules[k].enabled = 1
                     /\ relay_rules[k].signal_pattern = lastCall.signalType
                     /\ \/ relay_rules[k].source_filter = ""
                        \/ ~RegexValid(relay_rules[k].source_filter)
                        \/ RegexTest(relay_rules[k].source_filter, lastCall.sourceServer)}
           /\ \A i, j \in 1..Len(lastCall.rules) :
                  lastCall.rules[i].id = lastCall.rules[j].id => i = j

\* a call returned a rule whose filter does not compile and left out a rule
\* whose filter does not match the source
C16_Witness ==
    /\ lastCall.op = "matchRules"
    /\ lastCall.sourceServer = "synapse-relay"
    /\ Len(lastCall.rules) = 1
    /\ lastCall.rules[1].source_filter = "("
    /\ \E k \in DOMAIN relay_rules :
           relay_rules[k].source_filter = "^http" /\ relay_rules[k].enabled = 1

\* the step is a matchRules call
MatchStep == lastCall'.op = "matchRules" /\ lastCall' # lastCall

\* C17: a matchRules call raises match_count by exactly 1 for every rule it
\* returns and leaves it unchanged for every other rule; no step lowers the
\* match_count of a rule.
C17_MatchCountPerReturnedRule ==
    [][/\ \A k \in DOMAIN relay_rules \cap DOMAIN relay_rules' :
              relay_rules'[k].match_count >= relay_rules[k].match_count
       /\ MatchStep
          => /\ DOMAIN relay_rules' = DOMAIN relay_rules
             /\ \A k \in DOMAIN relay_rules :
                    relay_rules'[k].match_count =
                        relay_rules[k].match_count
                        + (IF \E j \in 1..Len(lastCall'.rules) : lastCall'.rules[j].id = k
                           THEN 1 ELSE 0)]_vars

\* a call returned one of two rules; the other kept the count it had
C17_Witness ==
    /\ lastCall.op = "matchRules"
    /\ Len(lastCall.rules) = 1
    /\ lastCall.rules[1].match_count = 1
    /\ \E k \in DOMAIN relay_rules :
           k # lastCall.rules[1].id /\ relay_rules[k].match_count = 1

\* the configure_relay arguments the claim calls invalid
ConfigureInvalid(input) ==
    \/ input.action = "add"
          /\ (~input.has_relay_to \/ input.relay_to = <<>> \/ input.signal_pattern = NULL)
    \/ input.action \in {"update", "remove"} /\ input.rule_id = NULL

\* C18: a configure_relay call with add and relay_to missing or empty or
\* signal_pattern missing, or with update or remove and rule_id missing, is
\* rejected with an error and leaves relay_rules unchanged.
C18_InvalidConfigureRejected ==
    [][(/\ lastCall'.op = "configure_relay"
        /\ lastCall' # lastCall
        /\ ConfigureInvalid(lastCall'.input))
           => /\ lastCall'.error
              /\ relay_rules' = relay_rules
              /\ rule_seq' = rule_seq]_vars

\* an add with an empty relay_to was rejected while the table held a rule
C18_Witness ==
    /\ lastCall.op = "configure_relay"
    /\ lastCall.input.action = "add"
    /\ lastCall.input.has_relay_to
    /\ lastCall.input.relay_to = <<>>
    /\ lastCall.input.signal_pattern = 80
    /\ lastCall.error
    /\ DOMAIN relay_rules # {}

\* the last datagram was decoded into a message
Decoded == lastCall.op = "message" /\ lastCall.message # NoMessage

\* C19: validateMessage accepts a message if and only if the signal whitelist
\* is empty or holds its signal_type, now - timestamp*1000 <= 300000 and
\* timestamp*1000 - now <= 60000; the sender plays no part.
C19_AcceptsIffWhitelistedAndFresh ==
    Decoded =>
        LET m == lastCall.message
            messageTime == Times(m.timestamp, 1000)
        IN  (lastCall.outcome # "rejected")
            <=> /\ \/ Len(tumbler.allowedSignals) = 0
                   \/ m.signalType \in Range(tumbler.allowedSignals)
                /\ LessEq(Minus(lastCall.at, messageTime), 300000)
                /\ LessEq(Minus(messageTime, lastCall.at), 60000)

\* the last datagram was legacy text with a type name outside the table
UnknownTypeName ==
    /\ Decoded
    /\ lastCall.datagram.fmt \in {"colon", "json"}
    /\ ToUpperCase(lastCall.datagram.type) \notin MappedTypeNames

\* C20 as stated: a legacy text message with an unmapped type name decodes
\* to signal_type 0x00 and the tumbler rejects it, whatever the tumbler's
\* configuration.
C20_UnknownNameNeverHandled ==
    UnknownTypeName =>
        /\ lastCall.message.signalType = 0
        /\ lastCall.outcome = "rejected"

\* C20 amended: such a message decodes to signal_type 0x00, and the tumbler
\* rejects it whenever its signal whitelist is not empty.
C20_UnknownNameRejectedByWhitelist ==
    UnknownTypeName =>
        /\ lastCall.message.signalType = 0
        /\ Len(tumbler.allowedSignals) > 0 => lastCall.outcome = "rejected"

\* a fresh BUFFER_FLUSH text message was turned away by a tumbler whose
\* whitelist comes from a configuration with an unreadable entry
C20_Witness ==
    /\ UnknownTypeName
    /\ lastCall.datagram.type = "BUFFER_FLUSH"
    /\ lastCall.datagram.last = 0
    /\ config.signals = <<[kind |-> "other", v |-> 0], [kind |-> "hex", v |-> 4]>>
    /\ lastCall.outcome = "rejected"

\* C21: for every signal_type in 1..255, sender and JSON-object payload,
\* decodeMessage(encodeMessage(signal_type, sender, payload)) has the same
\* signal_type, a payload holding every key/value of payload, and sender
\* equal to the sender argument.
C21_RoundTripKeepsTypePayloadSender ==
    lastCall.op = "encodeMessage" =>
        /\ lastCall.message.signalType = lastCall.signalType
        /\ \A k \in DOMAIN lastCall.payload :
               k \in DOMAIN lastCall.decoded /\ lastCall.decoded[k] = lastCall.payload[k]
        /\ lastCall.message.sender = lastCall.sender
        /\ lastCall.decoded["sender"] = lastCall.sender

\* C22: every datagram relaySignal sends to a target (and every datagram of
\* the delivery callback) is in the framed binary format: decodeMessage
\* yields the relayed signal_type and sender "synapse-relay".
C22_RelayDatagramsDecode ==
    /\ relay.pc = "sending" =>
        \A j \in 1..Len(relay.datagrams) :
            LET d == encodeRelayMessage(relay.request.signal_type, "synapse-relay",
                                        relay.payload, relay.request.priority,
                                        relay.startTime)
                m == decodeMessage(d, now)
            IN  /\ d.fmt = "binary"
                /\ m.signalType = relay.request.signal_type
                /\ m.sender = "synapse-relay"
    /\ \A c \in Calls :
           Waiting(c) =>
               LET m == decodeMessage(deliveryMessage(InFlight(c), now), now)
               IN  m.signalType = InFlight(c).signal_type /\ m.sender = "synapse-relay"

\* C23: for every validated RELAY_REQUEST whose sender has a configured
\* port the handler sends exactly one reply to that port, RELAY_RESPONSE when
\* relaySignal returned and RELAY_FAILED when it threw, and no reply before
\* relaySignal has settled.
C23_ExactlyOneReply ==
    (lastCall.op = "RELAY_REQUEST" /\ lastCall.sender \in engine_peer_ports) =>
        /\ lastCall.pc = "await" => lastCall.replies = <<>>
        /\ lastCall.pc = "done" =>
               /\ Len(lastCall.replies) = 1
               /\ lastCall.replies[1].to = lastCall.sender
               /\ lastCall.outcome = "returned"
                      => lastCall.replies[1].signalType = SignalTypes["RELAY_RESPONSE"]
               /\ lastCall.outcome = "threw"
                      => lastCall.replies[1].signalType = SignalTypes["RELAY_FAILED"]

\* a request from a peer with a port was relayed to a reachable target and
\* answered
C23_Witness ==
    /\ lastCall.op = "RELAY_REQUEST" /\ lastCall.pc = "done"
    /\ lastCall.sender \in engine_peer_ports
    /\ lastCall.outcome = "returned"
    /\ relay.pc = "returned" /\ Len(relay.result.targets_reached) > 0
    /\ Len(lastCall.replies) = 1

\* C24: a subscriber whose topic set holds the exact event type T and no
\* wildcard receives every event of type T the service emits, for each of
\* the event types.
C24_ExactSubscriberReceives ==
    lastCall.op = "broadcast" =>
        \A c \in DOMAIN lastCall.topics :
            (/\ lastCall.type \in lastCall.topics[c]
             /\ \A t \in lastCall.topics[c] : t[Len(t)] # "*")
                => c \in lastCall.receivers

\* C25: if a store write fails during a buffered-retry attempt (relaySignal
\* itself emits nothing), no relay:sent event is emitted for that attempt.
C25_NoEventWhenStoreWriteFails ==
    [][\A s \in Calls :
          (procs[s].pc = "await" /\ procs'[s].pc = "threw")
              => \A c \in DOMAIN clients : clients'[c].received = clients[c].received]_vars

\* C26: the buffer_stats a stats query returns holds the current number of
\* signal_buffer rows in each of the four statuses pending, delivered,
\* expired and failed.
C26_BufferStatsCountsFourStatuses ==
    [][(lastCall' # lastCall /\ lastCall'.op = "get_relay_stats") =>
          LET b == lastCall'.output.buffer_stats
          IN  /\ DOMAIN b = {"pending", "delivered", "expired", "failed"}
              /\ \A st \in DOMAIN b :
                     b[st] = Cardinality({k \in DOMAIN signal_buffer' :
                                             signal_buffer'[k].status = st})]_vars

\* C27: right after a rollup the count the stats query (since = 0, group_by
\* = source) reports for a source is the number of (relay record, target)
\* pairs recorded from it, however many rollups have run.
C27_CountEqualsRecordedPairs ==
    [][relay_stats' # relay_stats =>
          LET out == getRelayStatistics(relay_stats', signal_buffer', 0, "source")
          IN  \A src \in Sources :
                  (IF src \in DOMAIN out.by_group THEN out.by_group[src].count ELSE 0)
                      = Cardinality({p \in (1..Len(signal_relays)) \X (1..MaxTargets) :
                            /\ p[2] <= Len(signal_relays[p[1]].target_servers)
                            /\ signal_relays[p[1]].source_server = src})]_vars

\* C28: at most one processBuffer pass is in flight at any time: no pass
\* starts while an earlier one is awaiting a delivery callback.
C28_OneProcessBufferPassInFlight ==
    \A c1, c2 \in Calls :
        (/\ procs[c1].op = "processBuffer" /\ Waiting(c1)
         /\ procs[c2].op = "processBuffer" /\ Waiting(c2)) => c1 = c2

\* C29: a row that became terminal or was deleted between a processBuffer
\* pass's selection and its turn in the loop is not handed to the delivery
\* callback, and the pass leaves its status and retry_count alone.
C29_NoAttemptOnSettledRow ==
    [][\A c \in Calls :
          procs'[c].op = "processBuffer" =>
              /\ \A j \in (Len(procs[c].calls) + 1)..Len(procs'[c].calls) :
                     LET id == procs'[c].calls[j].id
                     IN  /\ id \in DOMAIN signal_buffer
                         /\ ~Terminal(signal_buffer[id].status)
              /\ (procs[c].pc = "await" /\ procs'[c] # procs[c]) =>
                     \A j \in (procs[c].i + 1)..Len(procs[c].list) :
                         LET id == procs[c].list[j].id
                         IN  (id \in DOMAIN signal_buffer
                                 /\ Terminal(signal_buffer[id].status))
                             => signal_buffer'[id] = signal_buffer[id]]_vars

\* C30: when a failed attempt of processBuffer leaves the stored retry_count
\* at or above max_retries the row's status is failed once processBuffer has
\* handled the result; every failed attempt adds exactly 1 to retry_count
\* and sets last_retry_at to the current time.  (The attempt of an awaiting
\* pass succeeded when the step leaves the row delivered with its count
\* unchanged; the attempts finished inside a step are the refused ones.)
C30_ExhaustedRowIsFailed ==
    [][\A c \in Calls :
          procs'[c].op = "processBuffer" =>
              LET first == IF procs[c].pc = "await"
                           THEN Len(procs[c].calls) ELSE Len(procs[c].calls) + 1
                  last == IF procs'[c].pc = "await"
                          THEN Len(procs'[c].calls) - 1 ELSE Len(procs'[c].calls)
              IN  \A j \in first..last :
                      LET id == procs'[c].calls[j].id
                      IN  (/\ procs'[c] # procs[c]
                           /\ id \in DOMAIN signal_buffer
                           /\ ~(/\ signal_buffer'[id].status = "delivered"
                                /\ signal_buffer'[id].retry_count
                                       = signal_buffer[id].retry_count))
                          => /\ signal_buffer'[id].retry_count
                                    = signal_buffer[id].retry_count + 1
                             /\ signal_buffer'[id].last_retry_at = now
                             /\ signal_buffer'[id].retry_count
                                    >= signal_buffer'[id].max_retries
                                    => signal_buffer'[id].status = "failed"]_vars

C32_AttemptsInPriorityOrder ==
    \A c \in Calls :
        procs[c].op = "processBuffer" =>
            \A m, n \in 1..Len(procs[c].calls) :
                m < n =>
                    LET level(p) == CASE p = "urgent" -> 4 [] p = "high" -> 3
                                      [] p = "normal" -> 2 [] p = "low" -> 1
                        a == procs[c].calls[m]
                        b == procs[c].calls[n]
                    IN  /\ level(a.priority) >= level(b.priority)
                        /\ a.priority = b.priority => a.buffered_at <= b.buffered_at

\* C33: when two enabled rules of different priority match a signal,
\* relaySignal applies the transform of the higher-priority rule first and
\* the transform of the lower-priority rule on its output; a key set by
\* both has the value of the lower-priority rule in the payload sent, which
\* is the payload recorded in signal_relays.
C33_TransformsComposeByPriority ==
    relay.pc \in {"sending", "returned"} =>
        \A h, l \in DOMAIN relay_rules :
            (/\ relay_rules[h].priority > relay_rules[l].priority
             /\ relay_rules[h].enabled = 1 /\ relay_rules[l].enabled = 1
             /\ relay_rules[h].signal_pattern = relay.request.signal_type
             /\ relay_rules[l].signal_pattern = relay.request.signal_type
             /\ DOMAIN relay_rules = {h, l}) =>
                LET hi == relay_rules[h].transform
                    lo == relay_rules[l].transform
                IN  /\ relay.payload =
                           applyTransform(applyTransform(relay.request.payload, hi), lo)
                    /\ \A i \in 1..Len(hi), j \in 1..Len(lo) :
                           (/\ hi[i].kind = "set" /\ lo[j].kind = "set"
                            /\ hi[i].key = lo[j].key) =>
                               /\ lo[j].key \in DOMAIN relay.payload
                               /\ relay.payload[lo[j].key] = lo[j].arg
                    /\ relay.pc = "returned" =>
                           signal_relays[Len(signal_relays)].payload = relay.payload

\* a relay returned after two rules of different priority set the same key
\* to different values
C33_Witness ==
    /\ relay.pc = "returned"
    /\ DOMAIN relay_rules = {1, 2}
    /\ relay_rules[1].priority # relay_rules[2].priority
    /\ relay_rules[1].match_count = 1 /\ relay_rules[2].match_count = 1
    /\ \E i \in 1..Len(relay_rules[1].transform), j \in 1..Len(relay_rules[2].transform) :
           /\ relay_rules[1].transform[i].kind = "set"
           /\ relay_rules[2].transform[j].kind = "set"
           /\ relay_rules[1].transform[i].key = relay_rules[2].transform[j].key
           /\ relay_rules[1].transform[i].arg # relay_rules[2].transform[j].arg
    /\ signal_relays # <<>>

C35_StopWaitsForInFlightPass ==
    [][/\ stop # "idle" =>
              \A c \in Calls : procs[c].pc = "idle" => procs'[c].pc = "idle"
       /\ (stop = "closing" /\ stop' = "closed") =>
              \A c \in Calls :
                  ~(procs[c].op = "processBuffer" /\ procs[c].pc = "await")]_vars

\* C36: after a client has sent subscribe with a list of topics, every
\* event a broadcast sends to it has a topic that matches one of the topics
\* it subscribed to, exactly or through a prefix:* entry (or "*" when it
\* asked for that); events of other topics are not sent to it.
C36_OnlySubscribedTopicsReceived ==
    [][\A c \in DOMAIN clients \cap DOMAIN clients' :
          (/\ lastCall'.op = "broadcast"
           /\ clients'[c].topics = clients[c].topics
           /\ clients'[c].received # clients[c].received
           /\ clients[c].requested # {})
              => LET topic == lastCall'.topic
                     asked == clients[c].requested
                 IN  \/ <<"*">> \in asked
                     \/ topic \in asked
                     \/ \E sub \in asked :
                            /\ Len(sub) >= 2
                            /\ sub[Len(sub)] = "*"
                            /\ Len(topic) >= Len(sub)
                            /\ \A i \in 1..(Len(sub) - 1) : topic[i] = sub[i]]_vars

\* C38: in every reachable state no signal_buffer row has status pending
\* together with retry_count >= max_retries, whichever operation made the
\* last failed attempt.
C38_NoPendingRowOutOfBudget ==
    \A k \in DOMAIN signal_buffer :
        ~(/\ signal_buffer[k].status = "pending"
          /\ signal_buffer[k].retry_count >= signal_buffer[k].max_retries)

\* C39: a row becomes delivered only in the step that handles the answer of
\* a delivery-callback invocation for that row, the invocation having been
\* awaited since an earlier step; no step marks a row delivered without a
\* send of its own for it.
C39_DeliveredOnlyAfterSend ==
    [][\A k \in DOMAIN signal_buffer \cap DOMAIN signal_buffer' :
          (signal_buffer'[k].status = "delivered" /\ signal_buffer[k].status # "delivered")
              => \E c \in Calls :
                     /\ procs[c].pc = "await"
                     /\ InFlight(c).id = k
                     /\ procs'[c] # procs[c]
                     /\ signal_buffer'[k].retry_count = signal_buffer[k].retry_count]_vars

\* a flushBuffer call has returned after delivering a row it attempted
C39_Witness ==
    \E c \in Calls, k \in DOMAIN signal_buffer :
        /\ procs[c].op = "flushBuffer"
        /\ procs[c].pc = "done"
        /\ \E n \in 1..Len(procs[c].calls) : procs[c].calls[n].id = k
        /\ signal_buffer[k].status = "delivered"

\* C40: the delivery callback is never invoked for a row whose expires_at
\* is earlier than the current time, by processBuffer, retryBufferedSignals
\* or flushBuffer.
C40_NoAttemptPastTtl ==
    [][\A c \in Calls :
          \A n \in (Len(procs[c].calls) + 1)..Len(procs'[c].calls) :
              ~(procs'[c].calls[n].expires_at < now)]_vars

C37_SweepWhateverTheCalls ==
    [][/\ \A c \in Calls :
              (procs[c].pc = "idle" /\ procs'[c].op = "processBuffer") =>
                  \A k \in DOMAIN signal_buffer' :
                      ~(/\ signal_buffer'[k].status = "pending"
                        /\ signal_buffer'[k].expires_at < now)
       /\ \A k \in DOMAIN signal_buffer \cap DOMAIN signal_buffer' :
              signal_buffer[k].status # "pending"
                  => signal_buffer'[k].status # "pending"]_vars

====
